---- MODULE Spec2Model ----
(***************************************************************************)
(* A model of cpt-viewer: the Robertson soil classifier, the GEF and BRO   *)
(* parsers, and the properties their specification states about them.      *)
(*                                                                         *)
(* JavaScript values are modelled as records: Null, Undef and Num(n, d),   *)
(* the exact rational n/d (d > 0, lowest terms).  Floating-point rounding  *)
(* is not modelled: every number is an exact rational.                     *)
(***************************************************************************)
EXTENDS Integers, Sequences, FiniteSets, TLC

VARIABLES
    pc,               \* which operation has run in the checked scenario
    qc, rf, zoneOut,  \* Robertson.classify: its arguments and its result
    rows, classifications,                    \* Robertson.classifyDataset
    points, minThickness,   \* mergeLayers: its arguments,
    provisional,            \* its local array layers after the first pass,
    layers,                 \* and its result
    distribution,           \* computeDistribution: its result
    gefText, gefOut,        \* GefParser.parse: the lines of its text, its outcome
    broDoc, broOut,         \* BroXmlParser.parse: its document, its outcome
    chart,                  \* a CptChart: its fields
    lastEvent,              \* the call or event that was handled last
    hoverCalls,             \* the arguments of the onHover calls of that handler
    nEvents,                \* how many calls and events the chart has handled
    fileList, unread,       \* handleFiles: the files, and those still being read
    cptDataSets, chartInstances, activeIndex,     \* the state of the application
    statusInfo,             \* the text of the status bar, as its parts
    callArgs, callResult    \* one call of a method: its arguments, what it returned

vars == <<pc, qc, rf, zoneOut, rows, classifications,
          points, minThickness, provisional, layers, distribution,
          gefText, gefOut, broDoc, broOut,
          chart, lastEvent, hoverCalls, nEvents,
          fileList, unread, cptDataSets, chartInstances, activeIndex, statusInfo,
          callArgs, callResult>>

clsVars == <<qc, rf, zoneOut>>
dsVars  == <<rows, classifications>>
layVars == <<points, minThickness, provisional, layers, distribution>>
gefVars == <<gefText, gefOut>>
broVars == <<broDoc, broOut>>
chartVars == <<chart, lastEvent, hoverCalls, nEvents>>
appVars == <<fileList, unread, cptDataSets, chartInstances, activeIndex, statusInfo>>
callVars == <<callArgs, callResult>>

-----------------------------------------------------------------------------
(* JavaScript values *)

Null    == [k |-> "null"]
Undef   == [k |-> "undefined"]
Pending == [k |-> "pending"]     \* no result yet (not a JavaScript value)
Idle    == [k |-> "idle"]        \* a variable the checked scenario does not use

\* The chart and the application are not part of the scenario.
NoChart ==
    chart = Idle /\ lastEvent = Idle /\ hoverCalls = Idle /\ nEvents = Idle

NoApp ==
    /\ fileList = Idle /\ unread = Idle /\ cptDataSets = Idle /\ chartInstances = Idle
    /\ activeIndex = Idle /\ statusInfo = Idle

\* No single method call is part of the scenario.
NoCall == callArgs = Idle /\ callResult = Idle

Abs(i) == IF i < 0 THEN -i ELSE i

RECURSIVE Gcd(_, _)
Gcd(a, b) == IF b = 0 THEN a ELSE Gcd(b, a % b)

\* The rational n/d in lowest terms with a positive denominator.
Num(n, d) ==
    LET s == IF d < 0 THEN -1 ELSE 1
        g == Gcd(Abs(n), Abs(d))
    IN  [k |-> "num", n |-> (s * n) \div g, d |-> (s * d) \div g]

Whole(i) == [k |-> "num", n |-> i, d |-> 1]

IsNum(x)     == x.k = "num"
IsMissing(x) == x = Null \/ x = Undef        \* x === null || x === undefined

Lt(a, b)  == a.n * b.d < b.n * a.d
Le(a, b)  == a.n * b.d <= b.n * a.d
Gt(a, b)  == Lt(b, a)
Ge(a, b)  == Le(b, a)
Sub(a, b) == Num(a.n * b.d - b.n * a.d, a.d * b.d)
Add(a, b) == Num(a.n * b.d + b.n * a.d, a.d * b.d)
Mul(a, b) == Num(a.n * b.n, a.d * b.d)
Div(a, b) == Num(a.n * b.d, a.d * b.n)       \* b # 0
Neg(a)    == [a EXCEPT !.n = -a.n]
MathAbs(a) == [a EXCEPT !.n = Abs(a.n)]

\* Reading a property of an object: a missing key reads as undefined.
Get(obj, key) == IF key \in DOMAIN obj THEN obj[key] ELSE Undef

\* Writing a property of an object.
Put(obj, key, val) == [x \in DOMAIN obj \cup {key} |-> IF x = key THEN val ELSE obj[x]]

\* The k-th smallest member of a set of integers.
KthOf(S, k) == CHOOSE x \in S : Cardinality({y \in S : y < x}) = k - 1

\* The members of a set of integers in ascending order.
Ascending(S) == [p \in 1..Cardinality(S) |-> KthOf(S, p)]

-----------------------------------------------------------------------------
(* Robertson.classify *)

ROBERTSON_ZONES == <<
    [zone |-> 1, name |-> "Gevoelig fijnkorrelig",  color |-> "#00BCD4"],
    [zone |-> 2, name |-> "Organisch / veen",       color |-> "#795548"],
    [zone |-> 3, name |-> "Klei",                   color |-> "#4CAF50"],
    [zone |-> 4, name |-> "Silt mengsels",          color |-> "#8BC34A"],
    [zone |-> 5, name |-> "Zand mengsels",          color |-> "#FFC107"],
    [zone |-> 6, name |-> "Zand",                   color |-> "#FF9800"],
    [zone |-> 7, name |-> "Grof zand / grind",      color |-> "#FF5722"],
    [zone |-> 8, name |-> "Zeer vast zand/klei",    color |-> "#F44336"],
    [zone |-> 9, name |-> "Zeer vast fijnkorrelig", color |-> "#9C27B0"] >>

\* ROBERTSON_ZONES[i] of the source, whose arrays count from 0.
Zone(i) == ROBERTSON_ZONES[i + 1]

\* The decision tree of classify for a valid pair (q > 0, r >= 0).
classifyTree(q, r) ==
    IF Gt(q, Whole(25)) THEN
        IF Lt(r, Whole(1)) THEN Zone(6) ELSE Zone(7)
    ELSE IF Gt(q, Whole(10)) THEN
        IF Lt(r, Num(1, 2)) THEN Zone(6)
        ELSE IF Lt(r, Num(3, 2)) THEN Zone(5)
        ELSE IF Lt(r, Whole(3)) THEN Zone(4)
        ELSE Zone(7)
    ELSE IF Gt(q, Whole(5)) THEN
        IF Lt(r, Whole(1)) THEN Zone(5)
        ELSE IF Lt(r, Whole(2)) THEN Zone(4)
        ELSE IF Lt(r, Whole(4)) THEN Zone(3)
        ELSE IF Lt(r, Whole(6)) THEN Zone(2)
        ELSE Zone(8)
    ELSE IF Gt(q, Whole(2)) THEN
        IF Lt(r, Whole(1)) THEN Zone(4)
        ELSE IF Lt(r, Num(5, 2)) THEN Zone(3)
        ELSE IF Lt(r, Whole(5)) THEN Zone(2)
        ELSE IF Lt(r, Whole(8)) THEN Zone(1)
        ELSE Zone(0)
    ELSE IF Gt(q, Num(1, 2)) THEN
        IF Lt(r, Num(3, 2)) THEN Zone(3)
        ELSE IF Lt(r, Whole(4)) THEN Zone(2)
        ELSE IF Lt(r, Whole(8)) THEN Zone(1)
        ELSE Zone(0)
    ELSE
        IF Lt(r, Whole(5)) THEN Zone(2)
        ELSE IF Lt(r, Whole(10)) THEN Zone(1)
        ELSE Zone(0)

\* A slip in the first band test: qc >= 25 instead of qc > 25.
classifyBandSlip(q, r) ==
    IF IsMissing(q) \/ IsMissing(r) THEN Null
    ELSE IF Le(q, Whole(0)) \/ Lt(r, Whole(0)) THEN Null
    ELSE IF Ge(q, Whole(25)) THEN (IF Lt(r, Whole(1)) THEN Zone(6) ELSE Zone(7))
    ELSE classifyTree(q, r)

\* A slip in the validity test: qc < 0 instead of qc <= 0.
classifyZeroSlip(q, r) ==
    IF IsMissing(q) \/ IsMissing(r) THEN Null
    ELSE IF Lt(q, Whole(0)) \/ Lt(r, Whole(0)) THEN Null
    ELSE classifyTree(q, r)

classify(q, r) ==
    IF IsMissing(q) \/ IsMissing(r) THEN Null
    ELSE IF Le(q, Whole(0)) \/ Lt(r, Whole(0)) THEN Null
    ELSE classifyTree(q, r)

-----------------------------------------------------------------------------
(* Scenario 1: classify applied to every pair of a grid of inputs.          *)

GridDen == 4     \* the inputs are the multiples of 1/GridDen
MaxQc   == 26    \* largest cone resistance tried, MPa
MaxRf   == 11    \* largest friction ratio tried, %

QcInputs == {Null, Undef} \cup {Num(i, GridDen) : i \in (-GridDen)..(MaxQc * GridDen)}
RfInputs == {Null, Undef} \cup {Num(i, GridDen) : i \in (-GridDen)..(MaxRf * GridDen)}

InitClassify ==
    /\ pc = "start"
    /\ qc \in QcInputs
    /\ rf \in RfInputs
    /\ zoneOut = Pending
    /\ gefText = Idle /\ gefOut = Idle /\ broDoc = Idle /\ broOut = Idle
    /\ NoChart /\ NoApp /\ NoCall
    /\ rows = Idle /\ classifications = Idle
    /\ points = Idle /\ minThickness = Idle /\ provisional = Idle
    /\ layers = Idle /\ distribution = Idle

Classify ==
    /\ pc = "start"
    /\ zoneOut' = classify(qc, rf)
    /\ pc' = "classified"
    /\ UNCHANGED <<qc, rf, dsVars, layVars, gefVars, broVars, chartVars, appVars, callVars>>

NextClassify == Classify

SpecClassify == InitClassify /\ [][NextClassify]_vars

-----------------------------------------------------------------------------
(* The decision table of the specification, one row per band and threshold  *)
(* interval: qlo < qc <= qhi and rlo <= rf < rhi give zone z.  A bound is    *)
(* <<>> when the interval is open-ended, else <<n, d>> for n/d.             *)

ZoneTable == {
    <<<<25, 1>>, <<>>,       <<0, 1>>,  <<1, 1>>,  7>>,
    <<<<25, 1>>, <<>>,       <<1, 1>>,  <<>>,      8>>,
    <<<<10, 1>>, <<25, 1>>,  <<0, 1>>,  <<1, 2>>,  7>>,
    <<<<10, 1>>, <<25, 1>>,  <<1, 2>>,  <<3, 2>>,  6>>,
    <<<<10, 1>>, <<25, 1>>,  <<3, 2>>,  <<3, 1>>,  5>>,
    <<<<10, 1>>, <<25, 1>>,  <<3, 1>>,  <<>>,      8>>,
    <<<<5, 1>>,  <<10, 1>>,  <<0, 1>>,  <<1, 1>>,  6>>,
    <<<<5, 1>>,  <<10, 1>>,  <<1, 1>>,  <<2, 1>>,  5>>,
    <<<<5, 1>>,  <<10, 1>>,  <<2, 1>>,  <<4, 1>>,  4>>,
    <<<<5, 1>>,  <<10, 1>>,  <<4, 1>>,  <<6, 1>>,  3>>,
    <<<<5, 1>>,  <<10, 1>>,  <<6, 1>>,  <<>>,      9>>,
    <<<<2, 1>>,  <<5, 1>>,   <<0, 1>>,  <<1, 1>>,  5>>,
    <<<<2, 1>>,  <<5, 1>>,   <<1, 1>>,  <<5, 2>>,  4>>,
    <<<<2, 1>>,  <<5, 1>>,   <<5, 2>>,  <<5, 1>>,  3>>,
    <<<<2, 1>>,  <<5, 1>>,   <<5, 1>>,  <<8, 1>>,  2>>,
    <<<<2, 1>>,  <<5, 1>>,   <<8, 1>>,  <<>>,      1>>,
    <<<<1, 2>>,  <<2, 1>>,   <<0, 1>>,  <<3, 2>>,  4>>,
    <<<<1, 2>>,  <<2, 1>>,   <<3, 2>>,  <<4, 1>>,  3>>,
    <<<<1, 2>>,  <<2, 1>>,   <<4, 1>>,  <<8, 1>>,  2>>,
    <<<<1, 2>>,  <<2, 1>>,   <<8, 1>>,  <<>>,      1>>,
    <<<<0, 1>>,  <<1, 2>>,   <<0, 1>>,  <<5, 1>>,  3>>,
    <<<<0, 1>>,  <<1, 2>>,   <<5, 1>>,  <<10, 1>>, 2>>,
    <<<<0, 1>>,  <<1, 2>>,   <<10, 1>>, <<>>,      1>> }

Above(x, lo)   == x.n * lo[2] > lo[1] * x.d            \* x > lo
AtLeast(x, lo) == x.n * lo[2] >= lo[1] * x.d           \* x >= lo
Below(x, hi)   == hi = <<>> \/ x.n * hi[2] < hi[1] * x.d    \* x < hi
AtMost(x, hi)  == hi = <<>> \/ x.n * hi[2] <= hi[1] * x.d   \* x <= hi

TableRows(q, r) ==
    {t \in ZoneTable : /\ Above(q, t[1]) /\ AtMost(q, t[2])
                       /\ AtLeast(r, t[3]) /\ Below(r, t[4])}

TableNull(q, r) ==
    \/ IsMissing(q) \/ IsMissing(r)
    \/ q.n <= 0
    \/ r.n < 0

\* C1: classify(qc, rf) is null exactly when an argument is missing or qc <= 0
\* or rf < 0; otherwise it is the zone object of the one row of the decision
\* table whose qc band and rf interval hold the pair, one of the 9 zones.
C1_ClassifyIsTable ==
    pc = "classified" =>
        IF TableNull(qc, rf) THEN zoneOut = Null
        ELSE /\ Cardinality(TableRows(qc, rf)) = 1
             /\ \E t \in TableRows(qc, rf) :
                    /\ zoneOut = ROBERTSON_ZONES[t[5]]
                    /\ zoneOut.zone = t[5]
             /\ zoneOut \in {ROBERTSON_ZONES[i] : i \in 1..9}

\* A pair on two thresholds at once (qc = 10, rf = 3) has been classified.
C1_Witness ==
    pc = "classified" /\ qc = Whole(10) /\ rf = Whole(3) /\ zoneOut = Zone(3)

\* C2 (as amended): classify(25, 0.5) is evaluated in the qc > 10 band, where
\* rf = 0.5 is not below 0.5, and returns zone 6.
C2_Boundary25 ==
    (pc = "classified" /\ qc = Whole(25) /\ rf = Num(1, 2)) =>
        /\ zoneOut.zone = 6
        /\ \E t \in TableRows(qc, rf) : t[1] = <<10, 1>> /\ t[5] = 6

C2_Witness ==
    pc = "classified" /\ qc = Whole(25) /\ rf = Num(1, 2) /\ zoneOut # Null

\* C2 as stated: classify(25, 0.5) returns zone 7.
C2_Original ==
    (pc = "classified" /\ qc = Whole(25) /\ rf = Num(1, 2)) =>
        (zoneOut # Null /\ zoneOut.zone = 7)

-----------------------------------------------------------------------------
(* Robertson.classifyDataset.  Array.prototype.filter is SelectSeq. *)

\* The filter callback: d = row.depth !== undefined ? row.depth : row.length;
\* the row is kept when d is neither null nor undefined.
hasDepthIndicator(row) ==
    LET d == IF Get(row, "depth") # Undef THEN Get(row, "depth") ELSE Get(row, "length")
    IN  d # Null /\ d # Undef

\* The map callback.
classifyRow(row) ==
    [depth |-> IF Get(row, "depth") # Undef THEN MathAbs(Get(row, "depth"))
               ELSE Get(row, "length"),
     zone  |-> classify(Get(row, "qc"), Get(row, "rf"))]


classifyDataset(data) ==
    LET kept == SelectSeq(data, hasDepthIndicator)
    IN  [i \in 1..Len(kept) |-> classifyRow(kept[i])]

-----------------------------------------------------------------------------
(* Scenario 2: classifyDataset applied to short sequences of rows.  A row   *)
(* is a function from the keys it holds to their values.                    *)

MaxRows == 2

Absent == [k |-> "absent"]       \* the row has no such key

RowDepthChoices == {Absent, Null, Whole(-2), Whole(1)}
LengthChoices == {Absent, Null, Whole(-1), Whole(3)}
QcChoices     == {Null, Whole(3)}
RfChoices     == {Absent, Whole(1)}

MakeRow(d, l, q, r) ==
    LET all == [depth |-> d, length |-> l, qc |-> q, rf |-> r]
    IN  [key \in {x \in DOMAIN all : all[x] # Absent} |-> all[key]]

RowInputs ==
    {MakeRow(d, l, q, r) :
        d \in RowDepthChoices, l \in LengthChoices, q \in QcChoices, r \in RfChoices}

SeqsUpTo(S, n) == UNION {[1..m -> S] : m \in 0..n}

InitDataset ==
    /\ pc = "start"
    /\ rows \in SeqsUpTo(RowInputs, MaxRows)
    /\ classifications = Pending
    /\ gefText = Idle /\ gefOut = Idle /\ broDoc = Idle /\ broOut = Idle
    /\ NoChart /\ NoApp /\ NoCall
    /\ qc = Idle /\ rf = Idle /\ zoneOut = Idle
    /\ points = Idle /\ minThickness = Idle /\ provisional = Idle
    /\ layers = Idle /\ distribution = Idle

ClassifyDataset ==
    /\ pc = "start"
    /\ classifications' = classifyDataset(rows)
    /\ pc' = "classifiedDataset"
    /\ UNCHANGED <<rows, clsVars, layVars, gefVars, broVars, chartVars, appVars, callVars>>

NextDataset == ClassifyDataset

SpecDataset == InitDataset /\ [][NextDataset]_vars

\* The depth indicator of a row as the specification describes it: the depth
\* field if it holds a value, otherwise the length field.
Indicator(row) ==
    IF IsNum(Get(row, "depth")) THEN Get(row, "depth") ELSE Get(row, "length")

HasIndicator(row) == IsNum(Indicator(row))

\* C7: classifyDataset returns one point, in row order, for every row that
\* has a depth or, failing that, a length; only rows with neither are dropped.
C7_KeepsEveryRowWithIndicator ==
    pc = "classifiedDataset" =>
        LET want == SelectSeq(rows, HasIndicator)
        IN  /\ Len(classifications) = Len(want)
            /\ \A i \in 1..Len(want) :
                   classifications[i].zone = classify(Get(want[i], "qc"), Get(want[i], "rf"))

-----------------------------------------------------------------------------
(* Robertson.mergeLayers *)

\* valid.sort((a, b) => a.depth - b.depth): a stable sort by ascending depth.
\* s[i] moves to the place after every element that sorts before it.
SortRank(s, i) ==
    1 + Cardinality({j \in 1..Len(s) :
            \/ Lt(s[j].depth, s[i].depth)
            \/ (s[j].depth = s[i].depth /\ j < i)})

sortByDepth(s) ==
    [p \in 1..Len(s) |-> s[CHOOSE i \in 1..Len(s) : SortRank(s, i) = p]]

\* The first pass: the loop over valid[i], i >= 1, with the layer being built
\* in current and the finished ones in acc; the last current is pushed too.
RECURSIVE buildLayers(_, _, _, _)
buildLayers(valid, i, current, acc) ==
    IF i > Len(valid) THEN Append(acc, current)
    ELSE IF valid[i].zone.zone = current.zone.zone
         THEN buildLayers(valid, i + 1, [current EXCEPT !.endDepth = valid[i].depth], acc)
         ELSE buildLayers(valid, i + 1,
                  [startDepth |-> valid[i].depth, endDepth |-> valid[i].depth,
                   zone |-> valid[i].zone],
                  Append(acc, current))

\* The provisional layers of sorted, classified points (at least one).
rawLayers(valid) ==
    buildLayers(valid, 2,
        [startDepth |-> valid[1].depth, endDepth |-> valid[1].depth, zone |-> valid[1].zone],
        <<>>)

\* The second pass: the loop over layers[i], i >= 1, absorbing thin layers.
RECURSIVE absorbThin(_, _, _, _)
absorbThin(ls, i, merged, minT) ==
    IF i > Len(ls) THEN merged
    ELSE LET thickness == Sub(ls[i].endDepth, ls[i].startDepth)
         IN  IF Lt(thickness, minT) /\ Len(merged) > 0
             THEN absorbThin(ls, i + 1,
                      [merged EXCEPT ![Len(merged)].endDepth = ls[i].endDepth], minT)
             ELSE absorbThin(ls, i + 1, Append(merged, ls[i]), minT)

\* A slip in the second pass: a thin layer is dropped without extending the
\* layer before it.
RECURSIVE dropThin(_, _, _, _)
dropThin(ls, i, merged, minT) ==
    IF i > Len(ls) THEN merged
    ELSE IF Lt(Sub(ls[i].endDepth, ls[i].startDepth), minT) /\ Len(merged) > 0
         THEN dropThin(ls, i + 1, merged, minT)
         ELSE dropThin(ls, i + 1, Append(merged, ls[i]), minT)

hasZone(c) == c.zone # Null

\* A slip in the first pass: the points are not sorted by depth.
provisionalLayersUnsorted(cs) ==
    IF Len(cs) = 0 THEN <<>>
    ELSE LET valid == SelectSeq(cs, hasZone)
         IN  IF Len(valid) = 0 THEN <<>> ELSE rawLayers(valid)

\* A slip in the first pass: every point opens a layer of its own.
provisionalLayersPerPoint(cs) ==
    IF Len(cs) = 0 THEN <<>>
    ELSE LET sorted == sortByDepth(SelectSeq(cs, hasZone))
         IN  [i \in 1..Len(sorted) |->
                 [startDepth |-> sorted[i].depth, endDepth |-> sorted[i].depth,
                  zone |-> sorted[i].zone]]

\* mergeLayers up to the end of its first pass: the early returns, the filter,
\* the sort and the provisional layers (the local array layers).
provisionalLayers(cs) ==
    IF Len(cs) = 0 THEN <<>>
    ELSE LET valid == SelectSeq(cs, hasZone)
         IN  IF Len(valid) = 0 THEN <<>> ELSE rawLayers(sortByDepth(valid))

removeThinDropping(ls, minT) ==
    IF Gt(minT, Whole(0)) /\ Len(ls) > 1
    THEN dropThin(ls, 2, <<ls[1]>>, minT)
    ELSE ls

\* The rest of mergeLayers: the second pass over the provisional layers.
removeThin(ls, minT) ==
    IF Gt(minT, Whole(0)) /\ Len(ls) > 1
    THEN absorbThin(ls, 2, <<ls[1]>>, minT)
    ELSE ls

mergeLayers(cs, minT) == removeThin(provisionalLayers(cs), minT)

-----------------------------------------------------------------------------
(* Robertson.computeDistribution *)

RECURSIVE SumNums(_)
SumNums(s) == IF s = <<>> THEN Whole(0) ELSE Add(Head(s), SumNums(Tail(s)))

layerThickness(l) == Sub(l.endDepth, l.startDepth)

\* The loop over the layers: the thicknesses it adds up, those of the layers
\* of zone z only, or of all layers when z = 0.  Layers with t <= 0 are skipped.
countedThickness(ls, z) ==
    LET Counts(l) == Gt(layerThickness(l), Whole(0)) /\ (z = 0 \/ l.zone.zone = z)
        counted == SelectSeq(ls, Counts)
    IN  SumNums([i \in 1..Len(counted) |-> layerThickness(counted[i])])

\* .sort((a, b) => b.percentage - a.percentage): stable, descending.
PctRank(s, i) ==
    1 + Cardinality({j \in 1..Len(s) :
            \/ Gt(s[j].percentage, s[i].percentage)
            \/ (s[j].percentage = s[i].percentage /\ j < i)})

\* A slip: the entries are left in the order of the zone table.
keepZoneOrder(s) == s

sortByPercentageDesc(s) ==
    [p \in 1..Len(s) |-> s[CHOOSE i \in 1..Len(s) : PctRank(s, i) = p]]

hasPercentage(d) == Gt(d.percentage, Whole(0))

distributionOver(ls, totalThickness) ==
    IF totalThickness = Whole(0) THEN <<>>
    ELSE LET all == [i \in 1..Len(ROBERTSON_ZONES) |->
                        [zone       |-> ROBERTSON_ZONES[i],
                         thickness  |-> countedThickness(ls, ROBERTSON_ZONES[i].zone),
                         percentage |-> Mul(Div(countedThickness(ls, ROBERTSON_ZONES[i].zone),
                                                totalThickness), Whole(100))]]
         IN  sortByPercentageDesc(SelectSeq(all, hasPercentage))

\* A slip: the total is taken as the span from the first layer's start to the
\* last layer's end instead of the sum of the thicknesses.
computeDistributionBySpan(ls) ==
    IF Len(ls) = 0 THEN <<>>
    ELSE distributionOver(ls, Sub(ls[Len(ls)].endDepth, ls[1].startDepth))

computeDistribution(ls) ==
    IF Len(ls) = 0 THEN <<>>
    ELSE distributionOver(ls, countedThickness(ls, 0))

-----------------------------------------------------------------------------
(* Scenario 3: mergeLayers applied to short sequences of classified points  *)
(* in any order.  The depths tried are 0, 0.1, 0.3, 0.6, ... (steps that    *)
(* grow by 0.1, so that gaps below, at and above minThickness all occur).   *)

DepthDen     == 10
MaxPoints    == 4
MaxDepthStep == 2     \* the depths tried are i(i+1)/2 / DepthDen, i <= MaxDepthStep
DefaultMinThickness == Num(2, 10)

DepthChoices == {Num((i * (i + 1)) \div 2, DepthDen) : i \in 0..MaxDepthStep}
ZoneChoices  == {Null, Zone(0), Zone(1)}
MinThicknessChoices == {Whole(0), Num(1, DepthDen), DefaultMinThickness}

PointInputs == {[depth |-> d, zone |-> z] : d \in DepthChoices, z \in ZoneChoices}

InitLayers ==
    /\ pc = "start"
    /\ points \in SeqsUpTo(PointInputs, MaxPoints)
    /\ minThickness \in MinThicknessChoices
    /\ provisional = Pending
    /\ layers = Pending
    /\ distribution = Idle
    /\ gefText = Idle /\ gefOut = Idle /\ broDoc = Idle /\ broOut = Idle
    /\ NoChart /\ NoApp /\ NoCall
    /\ qc = Idle /\ rf = Idle /\ zoneOut = Idle
    /\ rows = Idle /\ classifications = Idle

MergeLayers ==
    /\ pc = "start"
    /\ provisional' = provisionalLayers(points)
    /\ layers' = removeThin(provisional', minThickness)
    /\ pc' = "merged"
    /\ UNCHANGED <<points, minThickness, distribution, clsVars, dsVars, gefVars, broVars, chartVars, appVars, callVars>>

NextLayers == MergeLayers

SpecLayers == InitLayers /\ [][NextLayers]_vars

-----------------------------------------------------------------------------
(* Scenario 4: computeDistribution applied to short layer sets, those that  *)
(* mergeLayers can return and others (unordered, overlapping, inverted).    *)

MaxLayers == 2
MaxBound  == 3     \* largest layer bound tried, in 1/DepthDen

LayerInputs ==
    {[startDepth |-> Num(a, DepthDen), endDepth |-> Num(b, DepthDen), zone |-> z] :
        a \in 0..MaxBound, b \in 0..MaxBound, z \in ZoneChoices \ {Null}}

InitDistribution ==
    /\ pc = "start"
    /\ layers \in SeqsUpTo(LayerInputs, MaxLayers)
    /\ distribution = Pending
    /\ points = Idle /\ minThickness = Idle /\ provisional = Idle
    /\ gefText = Idle /\ gefOut = Idle /\ broDoc = Idle /\ broOut = Idle
    /\ NoChart /\ NoApp /\ NoCall
    /\ qc = Idle /\ rf = Idle /\ zoneOut = Idle
    /\ rows = Idle /\ classifications = Idle

ComputeDistribution ==
    /\ pc = "start"
    /\ distribution' = computeDistribution(layers)
    /\ pc' = "distributed"
    /\ UNCHANGED <<points, minThickness, provisional, layers, clsVars, dsVars, gefVars, broVars, chartVars, appVars, callVars>>

NextDistribution == ComputeDistribution

SpecDistribution == InitDistribution /\ [][NextDistribution]_vars

-----------------------------------------------------------------------------
(* Properties of mergeLayers (scenario 3) *)

ValidPoints == SelectSeq(points, hasZone)

\* Of the provisional layers prov, those the second pass keeps: the first
\* one, and every later one that is not thinner than minThickness.
Retained(prov) ==
    {i \in 1..Len(prov) : i = 1 \/ ~Lt(layerThickness(prov[i]), minThickness)}

\* The layer that the k-th retained layer has become once the thin layers
\* that follow it are absorbed: its start and zone, and the end of the last
\* provisional layer before the next retained one.
AbsorbedInto(prov, kept, k) ==
    LET first == KthOf(kept, k)
        last  == IF k = Cardinality(kept) THEN Len(prov) ELSE KthOf(kept, k + 1) - 1
    IN  [startDepth |-> prov[first].startDepth,
         endDepth   |-> prov[last].endDepth,
         zone       |-> prov[first].zone]

ExamplePoints ==
    << [depth |-> Whole(0),    zone |-> Zone(0)],
       [depth |-> Num(1, 10),  zone |-> Zone(0)],
       [depth |-> Num(3, 10),  zone |-> Zone(1)] >>

InLayer(d, l) == Le(l.startDepth, d) /\ Le(d, l.endDepth)

LayersOrdered ==
    /\ \A i \in 1..Len(layers) : Le(layers[i].startDepth, layers[i].endDepth)
    /\ \A i \in 1..(Len(layers) - 1) : Le(layers[i].endDepth, layers[i + 1].startDepth)

LayersSpan(valid) ==
    /\ Len(layers) > 0
    /\ \A i \in 1..Len(valid) :
           /\ Le(layers[1].startDepth, valid[i].depth)
           /\ Le(valid[i].depth, layers[Len(layers)].endDepth)
    /\ \E i \in 1..Len(valid) : valid[i].depth = layers[1].startDepth
    /\ \E i \in 1..Len(valid) : valid[i].depth = layers[Len(layers)].endDepth

\* C4 (as amended): the returned layers are depth-ordered and non-overlapping,
\* the first starts at the smallest and the last ends at the largest depth of
\* a point with a zone, and the depth of every point with a zone lies inside
\* some layer; for empty or all-null input the result is empty.
C4_LayersOrderedAndCoverPoints ==
    pc = "merged" =>
        LET valid == ValidPoints
        IN  IF Len(valid) = 0 THEN layers = <<>>
            ELSE /\ LayersOrdered
                 /\ LayersSpan(valid)
                 /\ \A i \in 1..Len(valid) :
                        \E j \in 1..Len(layers) : InLayer(valid[i].depth, layers[j])

\* Points given out of depth order, one of them without a zone, have been
\* merged into two layers.
C4_Witness ==
    /\ pc = "merged"
    /\ Len(layers) = 2
    /\ Len(ValidPoints) < Len(points)
    /\ \E i \in 1..(Len(points) - 1) : Lt(points[i + 1].depth, points[i].depth)

Midpoint(a, b) == Div(Add(a, b), Whole(2))

\* C4 as stated: moreover every depth between the smallest and the largest
\* valid depth lies inside some layer, here the depth midway between the end
\* of a layer and the start of the next.
C4_Original ==
    pc = "merged" =>
        LET valid == ValidPoints
        IN  IF Len(valid) = 0 THEN layers = <<>>
            ELSE /\ LayersOrdered
                 /\ LayersSpan(valid)
                 /\ \A i \in 1..(Len(layers) - 1) :
                        \E j \in 1..Len(layers) :
                            InLayer(Midpoint(layers[i].endDepth, layers[i + 1].startDepth),
                                    layers[j])

SameZoneNeighbours(ls) ==
    {i \in 1..(Len(ls) - 1) : ls[i].zone.zone = ls[i + 1].zone.zone}

\* C5 (as amended): no two consecutive provisional layers have the same zone,
\* and two consecutive returned layers have the same zone only when
\* minThickness > 0 and a thin layer between them was absorbed.
C5_MaximalRunsUnlessAbsorbed ==
    (pc = "merged" /\ layers # <<>>) =>
        LET prov == provisional
            kept == Retained(prov)
            same == SameZoneNeighbours(layers)
        IN  /\ SameZoneNeighbours(prov) = {}
            /\ same # {} =>
                   /\ Gt(minThickness, Whole(0))
                   /\ Len(layers) = Cardinality(kept)
                   /\ \A k \in same : KthOf(kept, k + 1) > KthOf(kept, k) + 1

\* Several points of one zone have been merged into one layer next to a layer
\* of another zone.
C5_Witness ==
    /\ pc = "merged"
    /\ Len(layers) = 2
    /\ Len(ValidPoints) = 4
    /\ SameZoneNeighbours(layers) = {}

\* C5 as stated: no two consecutive returned layers have the same zone.
C5_Original ==
    pc = "merged" => SameZoneNeighbours(layers) = {}

-----------------------------------------------------------------------------
(* Properties of computeDistribution (scenario 4) *)

RECURSIVE PositiveThickness(_)
PositiveThickness(ls) ==
    IF ls = <<>> THEN Whole(0)
    ELSE LET t == Sub(Head(ls).endDepth, Head(ls).startDepth)
         IN  IF t.n > 0 THEN Add(t, PositiveThickness(Tail(ls)))
             ELSE PositiveThickness(Tail(ls))

PercentageSum == SumNums([i \in 1..Len(distribution) |-> distribution[i].percentage])

\* C6 (as amended): for a layer set whose total positive thickness is not
\* zero the percentages of the returned entries sum to 100; for any other
\* layer set no entry is returned.
C6_PercentagesSumTo100 ==
    pc = "distributed" =>
        IF PositiveThickness(layers).n > 0
        THEN Len(distribution) > 0 /\ PercentageSum = Whole(100)
        ELSE distribution = <<>>

\* Two zones share a layer set of unequal thicknesses.
C6_Witness ==
    /\ pc = "distributed"
    /\ Len(distribution) = 2
    /\ Gt(distribution[1].percentage, distribution[2].percentage)
    /\ PercentageSum = Whole(100)

\* C6 as stated: for any non-empty layer set the percentages sum to 100.
C6_Original ==
    (pc = "distributed" /\ Len(layers) > 0) => PercentageSum = Whole(100)

\* The zones of the layer set, and per zone its layers and its entries.
ZonesPresent == {layers[i].zone.zone : i \in 1..Len(layers)}
LayersOf(z)  == {i \in 1..Len(layers) : layers[i].zone.zone = z}
EntriesOf(z) == {e \in 1..Len(distribution) : distribution[e].zone.zone = z}

IsThick(i) == Gt(layerThickness(layers[i]), Whole(0))
ThickLayersOf(z) == {i \in LayersOf(z) : IsThick(i)}

\* The sum of endDepth - startDepth over the layers numbered in S.
RECURSIVE ThicknessOver(_)
ThicknessOver(S) ==
    IF S = {} THEN Whole(0)
    ELSE LET i == CHOOSE j \in S : TRUE
         IN  Add(layerThickness(layers[i]), ThicknessOver(S \ {i}))

SameNum(a, b) == a.n * b.d = b.n * a.d

Descending ==
    \A e \in 1..(Len(distribution) - 1) :
        Ge(distribution[e].percentage, distribution[e + 1].percentage)

AllPositive ==
    \A e \in 1..Len(distribution) : Gt(distribution[e].percentage, Whole(0))

NoneInverted == \A i \in 1..Len(layers) : Ge(layerThickness(layers[i]), Whole(0))

\* C23 (as amended): computeDistribution returns exactly one entry for each
\* zone that has a layer of positive thickness and no other entry; the
\* entry's thickness is the sum of endDepth - startDepth over that zone's
\* layers of positive thickness; the entries are in non-increasing order of
\* percentage and none has a percentage <= 0; the result is empty when no
\* layer has positive thickness.
C23_OneEntryPerThickZone ==
    pc = "distributed" =>
        /\ \A z \in ZonesPresent :
               IF ThickLayersOf(z) = {}
               THEN EntriesOf(z) = {}
               ELSE /\ Cardinality(EntriesOf(z)) = 1
                    /\ \A e \in EntriesOf(z) :
                           SameNum(distribution[e].thickness,
                                   ThicknessOver(ThickLayersOf(z)))
        /\ \A e \in 1..Len(distribution) : distribution[e].zone.zone \in ZonesPresent
        /\ Descending
        /\ AllPositive
        /\ (\A i \in 1..Len(layers) : ~IsThick(i)) => distribution = <<>>

\* Two zones of unequal thickness, the thicker one later in the zone table:
\* the sort has moved its entry to the front.
C23_Witness ==
    /\ pc = "distributed"
    /\ Len(distribution) = 2
    /\ distribution[1].zone.zone > distribution[2].zone.zone
    /\ Gt(distribution[1].percentage, distribution[2].percentage)

\* C23 as stated, for layer sets without an inverted layer: no entries when
\* the total thickness is zero, and otherwise one entry for each zone present
\* in the layer set, its thickness the sum over that zone's layers, in
\* non-increasing order of percentage and none <= 0.
C23_Original ==
    (pc = "distributed" /\ NoneInverted) =>
        IF SameNum(ThicknessOver(1..Len(layers)), Whole(0))
        THEN distribution = <<>>
        ELSE /\ \A z \in ZonesPresent :
                    /\ Cardinality(EntriesOf(z)) = 1
                    /\ \A e \in EntriesOf(z) :
                           SameNum(distribution[e].thickness, ThicknessOver(LayersOf(z)))
             /\ Descending
             /\ AllPositive

-----------------------------------------------------------------------------
(* Text as GefParser reads it.                                              *)
(*                                                                         *)
(* The text is modelled after its split into lines.  A line is             *)
(*   [k |-> "hash", pad, word, gap, eq, val]  the text '#' word, then      *)
(*        white space if gap, then '=' and the value val if eq; val is     *)
(*        the sequence of the value's comma-separated fields;              *)
(*   [k |-> "data", pad, sep, toks]  the tokens toks joined by sep;        *)
(*   [k |-> "bang", pad]  a line starting with '!';                        *)
(*   [k |-> "blank"]      an empty or white line;                          *)
(* pad tells that white space surrounds the text.                          *)

NaN == [k |-> "nan"]

\* The numbers that the tokens of the model read as (parseFloat reads the
\* longest numeric prefix, so "1;2" reads as 1); any other token is no number.
TokenValue ==
    ("0" :> Whole(0)) @@ ("1" :> Whole(1)) @@ ("2" :> Whole(2)) @@ ("3" :> Whole(3))
    @@ ("4" :> Whole(4)) @@ ("11" :> Whole(11)) @@ ("-9" :> Whole(-9))
    @@ ("0.5" :> Num(1, 2)) @@ ("1;2" :> Whole(1)) @@ ("1 2" :> Whole(1))
    @@ ("-999999" :> Whole(-999999))
    @@ ("-999999;" :> Whole(-999999)) @@ ("-999999;1" :> Whole(-999999))
    @@ ("-999999;x" :> Whole(-999999)) @@ ("-999999;;" :> Whole(-999999))
    @@ ("-999999;;1" :> Whole(-999999)) @@ ("-999999;;x" :> Whole(-999999))
    @@ ("3;" :> Whole(3)) @@ ("3;1" :> Whole(3)) @@ ("3;x" :> Whole(3))
    @@ ("3;;" :> Whole(3)) @@ ("3;;1" :> Whole(3)) @@ ("3;;x" :> Whole(3))

parseFloat(tok) == IF tok \in DOMAIN TokenValue THEN TokenValue[tok] ELSE NaN

\* parseInt(tok, 10): the integer part, towards zero.
parseInt(tok) ==
    LET v == parseFloat(tok)
    IN  IF v = NaN THEN NaN
        ELSE Whole(IF v.n >= 0 THEN v.n \div v.d ELSE -((-v.n) \div v.d))

\* String.prototype.toUpperCase on the words of the model.
LowerWords == ("eoh" :> "EOH") @@ ("testid" :> "TESTID") @@ ("columninfo" :> "COLUMNINFO")
\* A slip: the keyword is taken as it is written.
keywordAsWritten(w) == w

toUpperCase(w) == IF w \in DOMAIN LowerWords THEN LowerWords[w] ELSE w

\* keyword.startsWith('COLUMN') on the words of the model.
startsWithCOLUMN(w) ==
    w \in {"COLUMN", "COLUMNINFO", "COLUMNSEPARATOR", "COLUMNVOID", "COLUMNTEXT",
           "COLUMNMINMAX"}

\* String.prototype.trim on a line.
trim(line) == IF "pad" \in DOMAIN line THEN [line EXCEPT !.pad = FALSE] ELSE line

\* s.padStart(2, '0')
padStart2(str) == IF Len(str) < 2 THEN (IF Len(str) < 1 THEN "00" ELSE "0" \o str) ELSE str

\* The text of a value: its fields joined by commas.
RECURSIVE JoinComma(_)
JoinComma(parts) ==
    IF Len(parts) = 0 THEN ""
    ELSE IF Len(parts) = 1 THEN parts[1]
    ELSE parts[1] \o "," \o JoinComma(Tail(parts))

\* line === '#EOH=' || line === '#EOH', for a trimmed line.
isEOH(line) ==
    /\ line.k = "hash"
    /\ ~line.pad
    /\ line.word = "EOH"
    /\ ~line.gap
    /\ (line.eq => line.val = <<"">>)

\* line.match(/^#(\w+)\s*=\s*(.*)/), for a trimmed line.
matchesKeyword(line) == line.k = "hash" /\ ~line.pad /\ line.eq

-----------------------------------------------------------------------------
(* GefParser *)

GEF_COLUMN_TYPES ==
    (1 :> [key |-> "length", label |-> "Sondeerlengte", unit |-> "m"])
    @@ (2 :> [key |-> "qc", label |-> "Conusweerstand", unit |-> "MPa"])
    @@ (3 :> [key |-> "fs", label |-> "Plaatselijke wrijving", unit |-> "MPa"])
    @@ (4 :> [key |-> "rf", label |-> "Wrijvingsgetal", unit |-> "%"])
    @@ (5 :> [key |-> "u1", label |-> "Waterspanning u1", unit |-> "MPa"])
    @@ (6 :> [key |-> "u2", label |-> "Waterspanning u2", unit |-> "MPa"])
    @@ (7 :> [key |-> "u3", label |-> "Waterspanning u3", unit |-> "MPa"])
    @@ (8 :> [key |-> "inclination", label |-> "Inclinatie resultant", unit |-> "graden"])
    @@ (9 :> [key |-> "incl_ns", label |-> "Inclinatie N-Z", unit |-> "graden"])
    @@ (10 :> [key |-> "incl_ew", label |-> "Inclinatie O-W", unit |-> "graden"])
    @@ (11 :> [key |-> "depth", label |-> "Diepte", unit |-> "m NAP"])
    @@ (12 :> [key |-> "time", label |-> "Tijd", unit |-> "s"])
    @@ (13 :> [key |-> "corrected_qc", label |-> "Gecorr. conusweerstand", unit |-> "MPa"])
    @@ (14 :> [key |-> "net_qc", label |-> "Netto conusweerstand", unit |-> "MPa"])
    @@ (15 :> [key |-> "pore_ratio", label |-> "Porienratio", unit |-> "-"])
    @@ (20 :> [key |-> "speed", label |-> "Sondeersnelheid", unit |-> "mm/s"])
    @@ (21 :> [key |-> "temp", label |-> "Temperatuur", unit |-> "C"])
    @@ (23 :> [key |-> "electric_cond", label |-> "Elektrische geleidbaarheid", unit |-> "S/m"])
    @@ (39 :> [key |-> "friction_total", label |-> "Totale wrijving", unit |-> "kN"])

\* array[index] = val: an index that is no whole number >= 0 sets a property
\* that neither the array's length nor a loop over its elements sees.
ArraySet(arr, index, val) ==
    IF IsNum(index) /\ index.n >= 0 THEN Put(arr, index.n, val) ELSE arr

ArrayLength(arr) ==
    IF DOMAIN arr = {} THEN 0 ELSE 1 + KthOf(DOMAIN arr, Cardinality(DOMAIN arr))

Minus1(x) == IF IsNum(x) THEN Whole(x.n - 1) ELSE NaN

\* The parser's state while it scans the header: header and columns.
_parseHeaderLine(st, keyword, value) ==
    IF keyword = "COLUMNINFO" THEN
        IF Len(value) >= 3
        THEN [st EXCEPT !.columns =
                 ArraySet(@, Minus1(parseInt(value[1])),
                     [unit |-> value[2], name |-> value[3],
                      type |-> IF Len(value) >= 4 THEN parseInt(value[4]) ELSE Null])]
        ELSE st
    ELSE IF keyword = "COLUMNSEPARATOR" THEN
        [st EXCEPT !.header = Put(@, "COLUMNSEPARATOR", value)]
    ELSE IF keyword = "RECORDSEPARATOR" THEN
        [st EXCEPT !.header = Put(@, "RECORDSEPARATOR", value)]
    ELSE IF keyword = "COLUMNVOID" THEN
        IF Len(value) >= 2
        THEN LET old == IF "COLUMNVOID" \in DOMAIN st.header
                        THEN st.header["COLUMNVOID"] ELSE <<>>
                 idx == Minus1(parseInt(value[1]))
             IN  [st EXCEPT !.header =
                     Put(@, "COLUMNVOID",
                         IF IsNum(idx) THEN Put(old, idx.n, parseFloat(value[2])) ELSE old)]
        ELSE st
    ELSE IF startsWithCOLUMN(keyword) THEN
        [st EXCEPT !.header =
            Put(@, "_columns",
                Append(IF "_columns" \in DOMAIN @ THEN @["_columns"] ELSE <<>>,
                       [keyword |-> keyword, value |-> value]))]
    ELSE
        [st EXCEPT !.header = Put(@, keyword, value)]

\* A slip in the scan: the line is compared with the terminator untrimmed.
isEOHUntrimmed(line, raw) == isEOH(raw)

\* The terminator test of the scan, on the trimmed line.
isTerminator(line, raw) == isEOH(line)

\* The header loop of parse from line i on (lines count from 1 here, so the
\* data starts at i + 1 where the source has dataStartIndex = i + 1 from 0).
RECURSIVE scanHeader(_, _, _)
scanHeader(lines, i, st) ==
    IF i > Len(lines) THEN st
    ELSE LET line == trim(lines[i])
         IN  IF isTerminator(line, lines[i]) THEN [st EXCEPT !.dataStartIndex = i + 1]
             ELSE IF ~matchesKeyword(line) THEN scanHeader(lines, i + 1, st)
             ELSE scanHeader(lines, i + 1,
                      _parseHeaderLine(st, toUpperCase(line.word), line.val))

_buildColumnMap(columns, header) ==
    LET Entry(i) ==
            LET col == columns[i]
                known == IsNum(col.type) /\ col.type.n # 0
                             /\ col.type.n \in DOMAIN GEF_COLUMN_TYPES
            IN  [index |-> i,
                 key   |-> IF known THEN GEF_COLUMN_TYPES[col.type.n].key
                           ELSE "col_" \o ToString(i + 1),
                 label |-> IF known THEN GEF_COLUMN_TYPES[col.type.n].label ELSE col.name,
                 unit  |-> IF col.unit # "" THEN col.unit
                           ELSE IF known THEN GEF_COLUMN_TYPES[col.type.n].unit ELSE "",
                 type  |-> col.type,
                 voidValue |-> IF "COLUMNVOID" \in DOMAIN header
                               THEN Get(header["COLUMNVOID"], i) ELSE Undef]
        slots == Ascending(DOMAIN columns)
    IN  [p \in 1..Len(slots) |-> Entry(slots[p])]

\* The separator: "ws" stands for the regular expression /\s+/.
_detectSeparator(header) ==
    IF "COLUMNSEPARATOR" \in DOMAIN header /\ JoinComma(header["COLUMNSEPARATOR"]) # ""
    THEN JoinComma(header["COLUMNSEPARATOR"])
    ELSE "ws"

\* line.split(separator).map(s => s.trim()).filter(s => s !== '')
RECURSIVE JoinWith(_, _)
JoinWith(toks, sep) ==
    IF Len(toks) = 0 THEN ""
    ELSE IF Len(toks) = 1 THEN toks[1]
    ELSE toks[1] \o sep \o JoinWith(Tail(toks), sep)

NotEmpty(str) == str # ""

splitLine(line, separator) ==
    IF (separator = "ws" /\ line.sep = " ") \/ separator = line.sep
    THEN SelectSeq(line.toks, NotEmpty)
    ELSE SelectSeq(<<JoinWith(line.toks, line.sep)>>, NotEmpty)

\* A slip in the value of a column: a value equal to the void value is kept.
cellValueKeepsVoid(parts, col) ==
    LET val == IF col.index + 1 \in 1..Len(parts)
               THEN parseFloat(parts[col.index + 1]) ELSE NaN
    IN  IF val = NaN THEN Null ELSE val

\* The value of one column of one data line; a part that is not there reads
\* as undefined, which is no number.
cellValue(parts, col) ==
    LET val == IF col.index + 1 \in 1..Len(parts)
               THEN parseFloat(parts[col.index + 1]) ELSE NaN
    IN  IF val = NaN THEN Null
        ELSE IF col.voidValue # Undef /\ val = col.voidValue THEN Null
        ELSE val

\* The row of one data line: a later column of the same key overwrites.
rowOf(parts, columnMap) ==
    LET keys == {columnMap[p].key : p \in 1..Len(columnMap)}
        Last(key) == KthOf({p \in 1..Len(columnMap) : columnMap[p].key = key},
                           Cardinality({p \in 1..Len(columnMap) : columnMap[p].key = key}))
    IN  [key \in keys |-> cellValue(parts, columnMap[Last(key)])]

\* A slip in _parseData: a line with too few parts gives a row as well.
RECURSIVE _parseDataKeepsShort(_, _, _, _)
_parseDataKeepsShort(lines, i, separator, columnMap) ==
    IF i > Len(lines) THEN <<>>
    ELSE LET line == trim(lines[i])
             rest == _parseDataKeepsShort(lines, i + 1, separator, columnMap)
         IN  IF line.k # "data" THEN rest
             ELSE <<rowOf(splitLine(line, separator), columnMap)>> \o rest

RECURSIVE _parseData(_, _, _, _)
_parseData(lines, i, separator, columnMap) ==
    IF i > Len(lines) THEN <<>>
    ELSE LET line == trim(lines[i])
             rest == _parseData(lines, i + 1, separator, columnMap)
         IN  IF line.k # "data" THEN rest
             ELSE LET parts == splitLine(line, separator)
                  IN  IF Len(parts) < Len(columnMap) THEN rest
                      ELSE <<rowOf(parts, columnMap)>> \o rest

hasKey(columnMap, key) == \E p \in 1..Len(columnMap) : columnMap[p].key = key

\* A slip in the depth of a row: the length is copied with its sign.
depthOfLengthUnsigned(length) == length

\* row.depth = -row.length
depthOfLength(length) == Neg(length)

\* A slip in the friction ratio of a row: the ratio is not made a percentage.
gefFrictionRatioPlain(row) ==
    IF row["qc"] # Null /\ row["fs"] # Null /\ row["qc"] # Whole(0)
    THEN Div(row["fs"], row["qc"])
    ELSE Null

\* The friction ratio that _computeDerived gives a row.
gefFrictionRatio(row) ==
    IF row["qc"] # Null /\ row["fs"] # Null /\ row["qc"] # Whole(0)
    THEN Mul(Div(row["fs"], row["qc"]), Whole(100))
    ELSE Null

\* The rows after _computeDerived.
derivedData(data, columnMap) ==
    LET withDepth ==
            IF ~hasKey(columnMap, "depth") /\ hasKey(columnMap, "length")
            THEN [r \in 1..Len(data) |->
                     IF data[r]["length"] # Null
                     THEN Put(data[r], "depth", depthOfLength(data[r]["length"]))
                     ELSE data[r]]
            ELSE data
        afterDepth ==
            IF ~hasKey(columnMap, "depth") /\ hasKey(columnMap, "length")
            THEN Append(columnMap, [key |-> "depth", label |-> "Diepte (berekend)",
                                    unit |-> "m", computed |-> TRUE])
            ELSE columnMap
    IN  IF ~hasKey(afterDepth, "rf") /\ hasKey(afterDepth, "qc") /\ hasKey(afterDepth, "fs")
        THEN [r \in 1..Len(withDepth) |-> Put(withDepth[r], "rf", gefFrictionRatio(withDepth[r]))]
        ELSE withDepth

\* The column map after _computeDerived.
derivedColumns(columnMap) ==
    LET afterDepth ==
            IF ~hasKey(columnMap, "depth") /\ hasKey(columnMap, "length")
            THEN Append(columnMap, [key |-> "depth", label |-> "Diepte (berekend)",
                                    unit |-> "m", computed |-> TRUE])
            ELSE columnMap
    IN  IF ~hasKey(afterDepth, "rf") /\ hasKey(afterDepth, "qc") /\ hasKey(afterDepth, "fs")
        THEN Append(afterDepth, [key |-> "rf", label |-> "Wrijvingsgetal (berekend)",
                                 unit |-> "%", computed |-> TRUE])
        ELSE afterDepth

\* header.X, truthy: the key is there and its text is not empty.
Has(header, key) == key \in DOMAIN header /\ JoinComma(header[key]) # ""

gefExtractMetadata(header) ==
    LET Copy(meta, to, from) ==
            IF Has(header, from) THEN Put(meta, to, JoinComma(header[from])) ELSE meta
        m1 == Copy(Copy(Copy(Copy(<<>>, "testId", "TESTID"), "projectId", "PROJECTID"),
                        "projectName", "PROJECTNAME"), "company", "COMPANYID")
        m2 == IF Has(header, "STARTDATE") /\ Len(header["STARTDATE"]) >= 3
              THEN Put(m1, "date", padStart2(header["STARTDATE"][3]) \o "-"
                                   \o padStart2(header["STARTDATE"][2]) \o "-"
                                   \o header["STARTDATE"][1])
              ELSE m1
        m3 == IF Has(header, "ZID")
              THEN Put(m2, "surfaceLevel",
                       IF Len(header["ZID"]) >= 2 THEN header["ZID"][2] \o " m NAP"
                       ELSE JoinComma(header["ZID"]))
              ELSE m2
        m4 == IF Has(header, "XYID") /\ Len(header["XYID"]) >= 3
              THEN Put(Put(Put(m3, "x", header["XYID"][2]), "y", header["XYID"][3]),
                       "coordSystem", header["XYID"][1])
              ELSE m3
        m5 == Copy(Copy(Copy(m4, "measurementVar", "MEASUREMENTVAR"), "gefVersion", "GEFID"),
                   "fileOwner", "FILEOWNER")
    IN  Put(m5, "name", IF "testId" \in DOMAIN m5 THEN m5["testId"]
                        ELSE IF "projectId" \in DOMAIN m5 THEN m5["projectId"]
                        ELSE "Onbekend")

Threw(message) == [k |-> "threw", message |-> message]

\* GefParser.parse on the lines of a text: the record returned, or the error
\* thrown.
gefParse(lines) ==
    LET st == scanHeader(lines, 1, [header |-> <<>>, columns |-> <<>>, dataStartIndex |-> -1])
    IN  IF st.dataStartIndex = -1
        THEN Threw("Geen #EOH gevonden - ongeldig GEF-bestand")
        ELSE LET columnMap == _buildColumnMap(st.columns, st.header)
                 separator == _detectSeparator(st.header)
                 data      == _parseData(lines, st.dataStartIndex, separator, columnMap)
             IN  [k       |-> "record",
                  header  |-> gefExtractMetadata(st.header),
                  columns |-> derivedColumns(columnMap),
                  data    |-> derivedData(data, columnMap)]

-----------------------------------------------------------------------------
(* Scenario 5: GefParser.parse on a text of at most MaxLines lines *)

MaxLines == 4

HashLine(pad, word, gap, eq, val) ==
    [k |-> "hash", pad |-> pad, word |-> word, gap |-> gap, eq |-> eq, val |-> val]

DataLine(toks) == [k |-> "data", pad |-> FALSE, sep |-> " ", toks |-> toks]

BlankLine == [k |-> "blank"]

GefLineChoices ==
    { HashLine(FALSE, "COLUMNINFO", FALSE, TRUE, <<"1", "m", "Sondeerlengte", "1">>),
      HashLine(FALSE, "COLUMNINFO", FALSE, TRUE, <<"1", "MPa", "Conus", "2">>),
      HashLine(FALSE, "COLUMNINFO", FALSE, TRUE, <<"2", "", "Wrijving", "3">>),
      HashLine(FALSE, "COLUMNINFO", FALSE, TRUE, <<"2", "m", "Diepte", "11">>),
      HashLine(FALSE, "COLUMNVOID", FALSE, TRUE, <<"1", "-9">>),
      HashLine(FALSE, "testid", FALSE, TRUE, <<"x">>),
      HashLine(FALSE, "EOH", FALSE, TRUE, <<"">>),
      HashLine(TRUE, "EOH", FALSE, FALSE, <<>>),
      HashLine(FALSE, "EOH", TRUE, TRUE, <<"">>),
      DataLine(<<"x", "0.5">>),
      DataLine(<<"-9">>),
      DataLine(<<"-9", "-9">>),
      DataLine(<<"0", "2">>),
      BlankLine }

InitGef ==
    /\ pc = "start"
    /\ gefText \in SeqsUpTo(GefLineChoices, MaxLines)
    /\ gefOut = Pending
    /\ broDoc = Idle /\ broOut = Idle
    /\ NoChart /\ NoApp /\ NoCall
    /\ points = Idle /\ minThickness = Idle /\ provisional = Idle
    /\ layers = Idle /\ distribution = Idle
    /\ qc = Idle /\ rf = Idle /\ zoneOut = Idle
    /\ rows = Idle /\ classifications = Idle

GefParse ==
    /\ pc = "start"
    /\ gefOut = Pending
    /\ gefOut' = gefParse(gefText)
    /\ pc' = "parsed"
    /\ UNCHANGED <<gefText, broVars, clsVars, dsVars, layVars, chartVars, appVars, callVars>>

NextGef == GefParse

SpecGef == InitGef /\ [][NextGef]_vars

-----------------------------------------------------------------------------
(* BroXmlParser.                                                            *)
(*                                                                         *)
(* The document is modelled as the DOM that DOMParser hands to the parser: *)
(*   wellFormed  no parsererror element;                                   *)
(*   hasCpt      a CPT_O or CPT_O_DP element is there;                     *)
(*   els         the text of the elements under it, by local name (a name  *)
(*               with '/' is an element looked up inside another);         *)
(*   params      the parameters element: [present |-> FALSE] or the text   *)
(*               of its children by tag;                                   *)
(*   hasValues, encoding, blocks   the values element, the TextEncoding    *)
(*               element and the blocks of the values text, which is       *)
(*               written with ',' between tokens and ';' between blocks.   *)

BRO_COLUMN_ORDER ==
    << [key |-> "length", label |-> "Sondeerlengte", unit |-> "m", paramTag |-> "penetrationLength"],
       [key |-> "depth", label |-> "Diepte", unit |-> "m", paramTag |-> "depth"],
       [key |-> "elapsedTime", label |-> "Verstreken tijd", unit |-> "s", paramTag |-> "elapsedTime"],
       [key |-> "qc", label |-> "Conusweerstand", unit |-> "MPa", paramTag |-> "coneResistance"],
       [key |-> "corrected_qc", label |-> "Gecorr. conusweerstand", unit |-> "MPa", paramTag |-> "correctedConeResistance"],
       [key |-> "net_qc", label |-> "Netto conusweerstand", unit |-> "MPa", paramTag |-> "netConeResistance"],
       [key |-> "mag_x", label |-> "Magnetisch veld X", unit |-> "nT", paramTag |-> "magneticFieldStrengthX"],
       [key |-> "mag_y", label |-> "Magnetisch veld Y", unit |-> "nT", paramTag |-> "magneticFieldStrengthY"],
       [key |-> "mag_z", label |-> "Magnetisch veld Z", unit |-> "nT", paramTag |-> "magneticFieldStrengthZ"],
       [key |-> "mag_total", label |-> "Magnetisch veld totaal", unit |-> "nT", paramTag |-> "magneticFieldStrengthTotal"],
       [key |-> "electric_cond", label |-> "Elektrische geleidbaarheid", unit |-> "S/m", paramTag |-> "electricalConductivity"],
       [key |-> "incl_ew", label |-> "Inclinatie O-W", unit |-> "graden", paramTag |-> "inclinationEW"],
       [key |-> "incl_ns", label |-> "Inclinatie N-Z", unit |-> "graden", paramTag |-> "inclinationNS"],
       [key |-> "incl_x", label |-> "Inclinatie X", unit |-> "graden", paramTag |-> "inclinationX"],
       [key |-> "incl_y", label |-> "Inclinatie Y", unit |-> "graden", paramTag |-> "inclinationY"],
       [key |-> "inclination", label |-> "Inclinatie resultant", unit |-> "graden", paramTag |-> "inclinationResultant"],
       [key |-> "mag_inclination", label |-> "Magnetische inclinatie", unit |-> "graden", paramTag |-> "magneticInclination"],
       [key |-> "mag_declination", label |-> "Magnetische declinatie", unit |-> "graden", paramTag |-> "magneticDeclination"],
       [key |-> "fs", label |-> "Plaatselijke wrijving", unit |-> "MPa", paramTag |-> "localFriction"],
       [key |-> "pore_ratio", label |-> "Porienratio", unit |-> "-", paramTag |-> "poreRatio"],
       [key |-> "temp", label |-> "Temperatuur", unit |-> "C", paramTag |-> "temperature"],
       [key |-> "u1", label |-> "Waterspanning u1", unit |-> "MPa", paramTag |-> "porePressureU1"],
       [key |-> "u2", label |-> "Waterspanning u2", unit |-> "MPa", paramTag |-> "porePressureU2"],
       [key |-> "u3", label |-> "Waterspanning u3", unit |-> "MPa", paramTag |-> "porePressureU3"],
       [key |-> "rf", label |-> "Wrijvingsgetal", unit |-> "%", paramTag |-> "frictionRatio"] >>

BRO_VOID_VALUE == Whole(-999999)

\* The number of tokens of a block that the row loop of _parseData reads.
BroTokenCount == 25

\* textContent.trim().toLowerCase() on the flag texts of the model.
FlagTexts == ("ja" :> "ja") @@ ("Ja " :> "ja") @@ ("JA" :> "ja") @@ ("nee" :> "nee")
trimLower(text) == IF text \in DOMAIN FlagTexts THEN FlagTexts[text] ELSE text

\* _getText: the trimmed text of the first element of that name, or null.
_getText(els, localName) == IF localName \in DOMAIN els THEN els[localName] ELSE Null

\* _getText(parent, localName) || ''
TextOrEmpty(els, localName) == IF localName \in DOMAIN els THEN els[localName] ELSE ""

\* element n of the array that a destructuring reads; undefined beyond it.
Item(arr, n) == IF n \in 1..Len(arr) THEN arr[n] ELSE Undef

broExtractMetadata(els) ==
    LET m1 == [testId |-> TextOrEmpty(els, "broId"),
               name |-> TextOrEmpty(els, "broId"),
               qualityRegime |-> TextOrEmpty(els, "qualityRegime")]
        m2 == IF "researchReportDate" \in DOMAIN els
              THEN Put(m1, "date", TextOrEmpty(els, "researchReportDate/date"))
              ELSE m1
        m3 == Put(m2, "cptStandard", TextOrEmpty(els, "cptStandard"))
        m4 == IF "standardizedLocation" \in DOMAIN els
                 /\ "standardizedLocation/pos" \in DOMAIN els
                 /\ els["standardizedLocation/pos"] # <<>>
              THEN Put(Put(m3, "lat", Item(els["standardizedLocation/pos"], 1)),
                       "lon", Item(els["standardizedLocation/pos"], 2))
              ELSE m3
        m5 == IF "deliveredLocation" \in DOMAIN els /\ "deliveredLocation/pos" \in DOMAIN els
              THEN Put(Put(m4, "x", IF els["deliveredLocation/pos"] = <<>> THEN ""
                                    ELSE els["deliveredLocation/pos"][1]),
                       "y", Item(els["deliveredLocation/pos"], 2))
              ELSE m4
        m6 == IF "deliveredVerticalPosition" \in DOMAIN els
                 /\ TextOrEmpty(els, "deliveredVerticalPosition/offset") # ""
              THEN Put(m5, "surfaceLevel",
                       els["deliveredVerticalPosition/offset"] \o " m "
                       \o (IF TextOrEmpty(els, "deliveredVerticalPosition/verticalDatum") = ""
                           THEN "NAP" ELSE els["deliveredVerticalPosition/verticalDatum"]))
              ELSE m5
        m7 == IF "trajectory" \in DOMAIN els
              THEN Put(Put(m6, "predrilledDepth", _getText(els, "trajectory/predrilledDepth")),
                       "finalDepth", _getText(els, "trajectory/finalDepth"))
              ELSE m6
        m8 == IF "conePenetrometerSurvey" \in DOMAIN els
              THEN Put(Put(m7, "qualityClass",
                           TextOrEmpty(els, "conePenetrometerSurvey/qualityClass")),
                       "cptMethod", TextOrEmpty(els, "conePenetrometerSurvey/cptMethod"))
              ELSE m7
    IN  Put(m8, "company", TextOrEmpty(els, "deliveryAccountableParty"))

\* A slip in _parseParameters: a flag element that is not there counts as 'ja'.
_parseParametersLax(params) ==
    [i \in 1..Len(BRO_COLUMN_ORDER) |->
        IF ~params.present THEN TRUE
        ELSE IF BRO_COLUMN_ORDER[i].paramTag \in DOMAIN params.flags
             THEN trimLower(params.flags[BRO_COLUMN_ORDER[i].paramTag]) = "ja"
             ELSE TRUE]

_parseParameters(params) ==
    [i \in 1..Len(BRO_COLUMN_ORDER) |->
        IF ~params.present THEN TRUE
        ELSE IF BRO_COLUMN_ORDER[i].paramTag \in DOMAIN params.flags
             THEN trimLower(params.flags[BRO_COLUMN_ORDER[i].paramTag]) = "ja"
             ELSE FALSE]

\* The separators that _parseData reads from the TextEncoding element.
tokenSepOf(encoding) ==
    IF encoding.present /\ encoding.tokenSeparator # "" THEN encoding.tokenSeparator ELSE ","

blockSepOf(encoding) ==
    IF encoding.present /\ encoding.blockSeparator # "" THEN encoding.blockSeparator ELSE ";"

\* The column map of the active columns (index counts from 0, as in the source).
broColumns(activeColumns) ==
    LET active == {i \in 1..Len(BRO_COLUMN_ORDER) : activeColumns[i]}
        slots  == Ascending(active)
    IN  [p \in 1..Len(slots) |->
            [index |-> slots[p] - 1,
             key   |-> BRO_COLUMN_ORDER[slots[p]].key,
             label |-> BRO_COLUMN_ORDER[slots[p]].label,
             unit  |-> BRO_COLUMN_ORDER[slots[p]].unit]]

\* block.trim().split(tokenSep), for a block written with ','.
splitBlock(block, tokenSep) ==
    IF tokenSep = "," THEN block ELSE <<JoinWith(block, ",")>>

\* The tokens of a text that is not split into its blocks: the last token of
\* a block and the first of the next stay one token around the ';'.
RECURSIVE unsplitBlocks(_)
unsplitBlocks(blocks) ==
    IF Len(blocks) = 1 THEN blocks[1]
    ELSE LET head == blocks[1]
             rest == unsplitBlocks(Tail(blocks))
         IN  SubSeq(head, 1, Len(head) - 1)
                 \o <<head[Len(head)] \o ";" \o rest[1]>> \o Tail(rest)

\* rawText.split(blockSep).filter(b => b.trim()), for a text written with ';'.
splitBlocks(blocks, blockSep) ==
    LET Filled(b) == JoinWith(b, ",") # ""
    IN  IF blockSep = ";" THEN SelectSeq(blocks, Filled)
        ELSE IF Len(blocks) = 0 THEN <<>>
        ELSE SelectSeq(<<unsplitBlocks(blocks)>>, Filled)

broRow(tokens) ==
    LET Slot(key) == CHOOSE i \in 1..BroTokenCount : BRO_COLUMN_ORDER[i].key = key
    IN  [key \in {BRO_COLUMN_ORDER[i].key : i \in 1..BroTokenCount} |->
            LET val == parseFloat(tokens[Slot(key)])
            IN  IF val = NaN \/ val = BRO_VOID_VALUE THEN Null ELSE val]

RECURSIVE broRows(_, _)
broRows(blks, tokenSep) ==
    IF Len(blks) = 0 THEN <<>>
    ELSE LET tokens == splitBlock(blks[1], tokenSep)
             rest   == broRows(Tail(blks), tokenSep)
         IN  IF Len(tokens) < BroTokenCount THEN rest
             ELSE <<broRow(tokens)>> \o rest

\* The friction ratio that _computeDerived of BroXmlParser gives a row.
broFrictionRatio(row) ==
    IF row["qc"] # Null /\ row["fs"] # Null /\ row["qc"] # Whole(0)
    THEN Mul(Div(row["fs"], row["qc"]), Whole(100))
    ELSE Null

\* _computeDerived of BroXmlParser: the rows, and the column map.
broDerivedData(data, columns) ==
    IF ~hasKey(columns, "rf") /\ hasKey(columns, "qc") /\ hasKey(columns, "fs")
    THEN [r \in 1..Len(data) |-> Put(data[r], "rf", broFrictionRatio(data[r]))]
    ELSE data

broDerivedColumns(columns) ==
    IF ~hasKey(columns, "rf") /\ hasKey(columns, "qc") /\ hasKey(columns, "fs")
    THEN Append(columns, [key |-> "rf", label |-> "Wrijvingsgetal (berekend)",
                          unit |-> "%", computed |-> TRUE])
    ELSE columns

\* BroXmlParser.parse: the record returned, or the error thrown.
broParse(doc) ==
    IF ~doc.wellFormed THEN Threw("Ongeldig XML-bestand")
    ELSE IF ~doc.hasCpt THEN Threw("Geen CPT_O of CPT_O_DP element gevonden in XML")
    ELSE IF ~doc.hasValues THEN Threw("Geen meetdata (cptcommon:values) gevonden in XML")
    ELSE LET columns == broColumns(_parseParameters(doc.params))
             data    == broRows(splitBlocks(doc.blocks, blockSepOf(doc.encoding)),
                                tokenSepOf(doc.encoding))
         IN  [k       |-> "record",
              header  |-> broExtractMetadata(doc.els),
              columns |-> broDerivedColumns(columns),
              data    |-> broDerivedData(data, columns)]

-----------------------------------------------------------------------------
(* Scenario 6: BroXmlParser.parse on a document of at most MaxBlocks blocks *)

MaxBlocks == 2

\* A block of n tokens: length, qc, fs and rf are measured, the rest is void.
MakeBlock(n, lengthTok, qcTok) ==
    [i \in 1..n |-> IF i = 1 THEN lengthTok
                    ELSE IF i = 4 THEN qcTok
                    ELSE IF i = 19 THEN "0.5"
                    ELSE IF i = 25 THEN "3"
                    ELSE "-999999"]

BlockChoices ==
    {MakeBlock(BroTokenCount, l, q) : l \in {"1", "x"}, q \in {"0", "2", "-999999"}}
    \cup {MakeBlock(BroTokenCount - 1, "1", "2"), <<"">>}

ParamsChoices ==
    { [present |-> FALSE],
      [present |-> TRUE, flags |-> <<>>],
      [present |-> TRUE,
       flags |-> ("penetrationLength" :> "ja") @@ ("coneResistance" :> "Ja ")
                 @@ ("localFriction" :> "JA") @@ ("frictionRatio" :> "nee")],
      [present |-> TRUE,
       flags |-> ("depth" :> "ja") @@ ("coneResistance" :> "ja")
                 @@ ("localFriction" :> "nee") @@ ("frictionRatio" :> "ja")] }

EncodingChoices ==
    { [present |-> FALSE],
      [present |-> TRUE, tokenSeparator |-> ",", blockSeparator |-> ";"],
      [present |-> TRUE, tokenSeparator |-> "", blockSeparator |-> ""],
      [present |-> TRUE, tokenSeparator |-> " ", blockSeparator |-> ";"],
      [present |-> TRUE, tokenSeparator |-> ",", blockSeparator |-> "|"] }

ElsChoices ==
    { <<>>,
      ("broId" :> "CPT1") @@ ("researchReportDate" :> "")
          @@ ("researchReportDate/date" :> "2020-01-02")
          @@ ("standardizedLocation" :> "") @@ ("standardizedLocation/pos" :> <<"52.1", "4.3">>)
          @@ ("deliveredLocation" :> "") @@ ("deliveredLocation/pos" :> <<"100">>)
          @@ ("deliveredVerticalPosition" :> "")
          @@ ("deliveredVerticalPosition/offset" :> "1.5")
          @@ ("trajectory" :> "") @@ ("trajectory/finalDepth" :> "20")
          @@ ("conePenetrometerSurvey" :> "")
          @@ ("conePenetrometerSurvey/qualityClass" :> "klasse2") }

BroDocInputs ==
    [wellFormed : BOOLEAN, hasCpt : BOOLEAN, hasValues : BOOLEAN,
     els : ElsChoices, params : ParamsChoices, encoding : EncodingChoices,
     blocks : SeqsUpTo(BlockChoices, MaxBlocks)]

InitBro ==
    /\ pc = "start"
    /\ broDoc \in BroDocInputs
    /\ broOut = Pending
    /\ gefText = Idle /\ gefOut = Idle
    /\ NoChart /\ NoApp /\ NoCall
    /\ points = Idle /\ minThickness = Idle /\ provisional = Idle
    /\ layers = Idle /\ distribution = Idle
    /\ qc = Idle /\ rf = Idle /\ zoneOut = Idle
    /\ rows = Idle /\ classifications = Idle

BroParse ==
    /\ pc = "start"
    /\ broOut = Pending
    /\ broOut' = broParse(broDoc)
    /\ pc' = "parsed"
    /\ UNCHANGED <<broDoc, gefVars, clsVars, dsVars, layVars, chartVars, appVars, callVars>>

NextBro == BroParse

SpecBro == InitBro /\ [][NextBro]_vars

-----------------------------------------------------------------------------
(* Scenario 7: a file of either format is parsed by the parser of its format *)

InitParsers == InitGef \/ InitBro

NextParsers == GefParse \/ BroParse

SpecParsers == InitParsers /\ [][NextParsers]_vars

-----------------------------------------------------------------------------
(* Properties of the records that the parsers return (scenarios 5 and 6) *)

\* Every row of a returned record has a number or a null under every key that
\* the record's columns list.
RowsComplete(out) ==
    out.k = "record" =>
        \A r \in 1..Len(out.data) : \A p \in 1..Len(out.columns) :
            /\ out.columns[p].key \in DOMAIN out.data[r]
            /\ \/ IsNum(out.data[r][out.columns[p].key])
               \/ out.data[r][out.columns[p].key] = Null

\* C9: in every record returned by either parser, every row of data has an
\* entry, a number or an explicit null, for every key listed in columns,
\* the computed columns depth and rf included.
C9_EveryRowHasEveryColumn ==
    pc = "parsed" => RowsComplete(gefOut) /\ RowsComplete(broOut)

\* Line i of the text is, once trimmed, '#EOH' or '#EOH='.
TerminatorAt(i) ==
    /\ gefText[i].k = "hash"
    /\ gefText[i].word = "EOH"
    /\ ~gefText[i].gap
    /\ (gefText[i].eq => gefText[i].val = <<"">>)

HasTerminatorLine == \E i \in 1..Len(gefText) : TerminatorAt(i)

FirstTerminator == KthOf({i \in 1..Len(gefText) : TerminatorAt(i)}, 1)

\* The COLUMNINFO lines before the terminator, and the column each describes.
InfoLines ==
    {j \in 1..(FirstTerminator - 1) :
        /\ gefText[j].k = "hash" /\ gefText[j].eq
        /\ gefText[j].word \in {"COLUMNINFO", "columninfo"}
        /\ Len(gefText[j].val) >= 3}

ColumnNumber(j) == TokenValue[gefText[j].val[1]].n

\* The last COLUMNINFO line for column number n.
InfoLineOf(n) ==
    LET js == {j \in InfoLines : ColumnNumber(j) = n}
    IN  KthOf(js, Cardinality(js))

NotComputed(col) == "computed" \notin DOMAIN col

\* The measured columns of the record are those of the COLUMNINFO lines before
\* the terminator, in the order of their column numbers, each with the key
\* of its quantity and its unit; the computed columns follow from them.
ColumnsFromInfoLines ==
    LET listed == SelectSeq(gefOut.columns, NotComputed)
        keys   == {listed[p].key : p \in 1..Len(listed)}
        extra  == (IF "length" \in keys /\ "depth" \notin keys THEN <<"depth">> ELSE <<>>)
                  \o (IF "qc" \in keys /\ "fs" \in keys /\ "rf" \notin keys
                      THEN <<"rf">> ELSE <<>>)
    IN  /\ {listed[p].index + 1 : p \in 1..Len(listed)} = {ColumnNumber(j) : j \in InfoLines}
        /\ \A p \in 1..Len(listed) : \A q \in 1..Len(listed) :
               p < q => listed[p].index < listed[q].index
        /\ \A p \in 1..Len(listed) :
               LET info == gefText[InfoLineOf(listed[p].index + 1)].val
                   kind == GEF_COLUMN_TYPES[TokenValue[info[4]].n]
               IN  /\ listed[p].key = kind.key
                   /\ listed[p].label = kind.label
                   /\ listed[p].unit = IF info[2] # "" THEN info[2] ELSE kind.unit
        /\ Len(gefOut.columns) = Len(listed) + Len(extra)
        /\ \A p \in 1..Len(extra) :
               /\ gefOut.columns[Len(listed) + p].key = extra[p]
               /\ ~NotComputed(gefOut.columns[Len(listed) + p])

NoDataLineFollows ==
    \A i \in (FirstTerminator + 1)..Len(gefText) : gefText[i].k # "data"

\* C10: GefParser.parse throws exactly when no line of the text, once
\* trimmed, is '#EOH' or '#EOH='; when there is such a line it returns a
\* record, whose column map is the one built from the COLUMNINFO lines before
\* the terminator and whose data is empty when no data line follows it.
C10_ThrowsExactlyWithoutTerminator ==
    pc = "parsed" =>
        /\ gefOut.k = "threw" <=> ~HasTerminatorLine
        /\ HasTerminatorLine =>
               /\ gefOut.k = "record"
               /\ ColumnsFromInfoLines
               /\ NoDataLineFollows => gefOut.data = <<>>

\* A text whose terminator is written with white space around it, after a
\* COLUMNINFO line and with no data line after it, has been parsed.
C10_Witness ==
    /\ pc = "parsed"
    /\ HasTerminatorLine
    /\ gefText[FirstTerminator].pad
    /\ NoDataLineFollows
    /\ InfoLines # {}
    /\ gefOut.k = "record"
    /\ gefOut.data = <<>>
    /\ Len(gefOut.columns) >= 1

-----------------------------------------------------------------------------
(* Properties of the derived columns (scenario 7) *)

GefRecord == pc = "parsed" /\ gefOut.k = "record"

BroRecord == pc = "parsed" /\ broOut.k = "record"

\* The quantity that the file declares for column number n.
DeclaredKey(n) == GEF_COLUMN_TYPES[TokenValue[gefText[InfoLineOf(n)].val[4]].n].key

DeclaredNumbers == {ColumnNumber(j) : j \in InfoLines}

DeclaredKeys == {DeclaredKey(n) : n \in DeclaredNumbers}

\* The data lines after the terminator that have a token for every declared
\* column: the lines that become rows, in their order.
IsRowLine(line) == line.k = "data" /\ Len(line.toks) >= Cardinality(DeclaredNumbers)

RowLines == SelectSeq(SubSeq(gefText, FirstTerminator + 1, Len(gefText)), IsRowLine)

\* The number that a token reads as, null when it reads as none.
Reading(tok) == IF tok \in DOMAIN TokenValue THEN TokenValue[tok] ELSE Null

\* The entries of columns under a key that are flagged computed.
ComputedColumns(out, key) ==
    {p \in 1..Len(out.columns) :
        out.columns[p].key = key /\ ~NotComputed(out.columns[p]) /\ out.columns[p].computed}

ColumnsOfKey(out, key) == {p \in 1..Len(out.columns) : out.columns[p].key = key}

\* C11: when a GEF file declares a length column and no depth column, every
\* row with a non-null length has depth = -length and columns ends with one
\* depth descriptor flagged computed; when it declares a depth column, depth
\* is the value read from that column and no computed depth is added.
C11_DepthFromLength ==
    GefRecord =>
        /\ ("length" \in DeclaredKeys /\ "depth" \notin DeclaredKeys) =>
               /\ \A r \in 1..Len(gefOut.data) :
                      gefOut.data[r]["length"] # Null =>
                          /\ "depth" \in DOMAIN gefOut.data[r]
                          /\ gefOut.data[r]["depth"] = Neg(gefOut.data[r]["length"])
               /\ Cardinality(ComputedColumns(gefOut, "depth")) = 1
               /\ Cardinality(ColumnsOfKey(gefOut, "depth")) = 1
        /\ "depth" \in DeclaredKeys =>
               /\ ComputedColumns(gefOut, "depth") = {}
               /\ Len(gefOut.data) = Len(RowLines)
               /\ \A r \in 1..Len(gefOut.data) :
                      LET n == CHOOSE m \in DeclaredNumbers : DeclaredKey(m) = "depth"
                      IN  gefOut.data[r]["depth"] =
                              IF n \in 1..Len(RowLines[r].toks)
                              THEN Reading(RowLines[r].toks[n]) ELSE Null

\* A file that declares only a length column has given a row whose depth is
\* the negated, non-zero length.
C11_Witness ==
    /\ GefRecord
    /\ DeclaredKeys = {"length"}
    /\ \E r \in 1..Len(gefOut.data) :
           /\ gefOut.data[r]["length"] # Null
           /\ gefOut.data[r]["length"] # Whole(0)
           /\ gefOut.data[r]["depth"] = Neg(gefOut.data[r]["length"])
    /\ Cardinality(ComputedColumns(gefOut, "depth")) = 1

\* The keys of the columns that a record lists as measured.
ListedKeys(out) == {out.columns[p].key : p \in {q \in 1..Len(out.columns) : NotComputed(out.columns[q])}}

NeedsRf(out) ==
    "qc" \in ListedKeys(out) /\ "fs" \in ListedKeys(out) /\ "rf" \notin ListedKeys(out)

\* fs / qc * 100, null when qc is null, fs is null or qc is 0.
ExpectedRf(row) ==
    IF row["qc"] = Null \/ row["fs"] = Null \/ row["qc"] = Whole(0) THEN Null
    ELSE Mul(Div(row["fs"], row["qc"]), Whole(100))

\* Every row has the derived rf, and columns ends with the one rf descriptor,
\* flagged computed.
RfDerived(out) ==
    /\ \A r \in 1..Len(out.data) :
           "rf" \in DOMAIN out.data[r] /\ out.data[r]["rf"] = ExpectedRf(out.data[r])
    /\ ComputedColumns(out, "rf") = {Len(out.columns)}
    /\ ColumnsOfKey(out, "rf") = {Len(out.columns)}

\* The document is written with the separators that its TextEncoding names.
WrittenAsDeclared ==
    broDoc.encoding.present =>
        /\ broDoc.encoding.tokenSeparator \in {"", ","}
        /\ broDoc.encoding.blockSeparator \in {"", ";"}

IsFullBlock(block) == Len(block) >= BroTokenCount

FullBlocks == SelectSeq(broDoc.blocks, IsFullBlock)

\* What a token of a BRO block reads as.
BroReading(tok) ==
    IF tok \in DOMAIN TokenValue /\ tok # "-999999" THEN TokenValue[tok] ELSE Null

-----------------------------------------------------------------------------
(* Properties of the values read (scenario 7) *)

\* The COLUMNVOID lines before the terminator that register a void value for
\* column number n.
VoidLines(n) ==
    {j \in 1..(FirstTerminator - 1) :
        /\ gefText[j].k = "hash" /\ gefText[j].eq
        /\ gefText[j].word = "COLUMNVOID"
        /\ Len(gefText[j].val) >= 2
        /\ gefText[j].val[1] \in DOMAIN TokenValue
        /\ TokenValue[gefText[j].val[1]].n = n}

\* The token of column number n on a line is no number, or is the void value
\* registered for column n.
ReadsNull(line, n) ==
    \/ n \notin 1..Len(line.toks)
    \/ line.toks[n] \notin DOMAIN TokenValue
    \/ \E j \in VoidLines(n) :
           /\ j = KthOf(VoidLines(n), Cardinality(VoidLines(n)))
           /\ gefText[j].val[2] \in DOMAIN TokenValue
           /\ TokenValue[gefText[j].val[2]] = TokenValue[line.toks[n]]

GefValuesRead ==
    /\ Len(gefOut.data) = Len(RowLines)
    /\ \A r \in 1..Len(gefOut.data) : \A n \in DeclaredNumbers :
           gefOut.data[r][DeclaredKey(n)] =
               IF ReadsNull(RowLines[r], n) THEN Null ELSE TokenValue[RowLines[r].toks[n]]

\* The rf of a row is derived, not read, when the record needs it.
BroValuesRead ==
    /\ Len(broOut.data) = Len(FullBlocks)
    /\ \A r \in 1..Len(broOut.data) : \A i \in 1..25 :
           (i = 25 /\ NeedsRf(broOut)) \/
               broOut.data[r][BRO_COLUMN_ORDER[i].key] = BroReading(FullBlocks[r][i])

\* C13: a value that is no number or is a void value never fails the parse
\* and nulls only its own field.  A GEF field is null exactly when its token
\* is no number or equals the void value registered for its own column; a BRO
\* field, at any of the 25 positions, exactly when its token is no number or
\* equals -999999; every other field is the number its token reads as.
C13_OnlyOwnFieldNulled ==
    /\ (pc = "parsed" /\ gefOut.k # "idle" /\ HasTerminatorLine) =>
           gefOut.k = "record" /\ GefValuesRead
    /\ (pc = "parsed" /\ broOut.k # "idle"
            /\ broDoc.wellFormed /\ broDoc.hasCpt /\ broDoc.hasValues) =>
           broOut.k = "record" /\ (WrittenAsDeclared => BroValuesRead)

\* A GEF text that registers -9 as the void value of column 1 and declares
\* column 2 has kept the -9 read in column 2.
C13_Witness ==
    /\ GefRecord
    /\ VoidLines(1) # {}
    /\ 2 \in DeclaredNumbers
    /\ \E r \in 1..Len(gefOut.data) :
           /\ RowLines[r].toks = <<"-9", "-9">>
           /\ gefOut.data[r][DeclaredKey(2)] = Whole(-9)

-----------------------------------------------------------------------------
(* Properties of the active columns of BroXmlParser (scenario 6) *)

BroKeys == {BRO_COLUMN_ORDER[i].key : i \in 1..Len(BRO_COLUMN_ORDER)}

\* The place of a key in the reference order.
BroPlace(key) == CHOOSE i \in 1..Len(BRO_COLUMN_ORDER) : BRO_COLUMN_ORDER[i].key = key

\* Flag texts that are 'ja' once lower-cased, and once trimmed and lower-cased.
LowerCasedIsJa(text) == text \in {"ja", "JA"}

TrimmedLowerCasedIsJa(text) == text \in {"ja", "JA", "Ja "}

\* The flag text says yes, with or without trimming it first.
Says(text, trimmed) ==
    IF trimmed THEN TrimmedLowerCasedIsJa(text) ELSE LowerCasedIsJa(text)

\* The reference columns whose flag element is there and says yes.
FlaggedKeys(trimmed) ==
    {BRO_COLUMN_ORDER[i].key : i \in
        {j \in 1..Len(BRO_COLUMN_ORDER) :
            /\ BRO_COLUMN_ORDER[j].paramTag \in DOMAIN broDoc.params.flags
            /\ Says(broDoc.params.flags[BRO_COLUMN_ORDER[j].paramTag], trimmed)}}

\* The record lists the flagged columns, or all 25 without a parameters block,
\* in the reference order, and every row stores all 25 keys.
ActiveColumnsListed(trimmed) ==
    LET listed == SelectSeq(broOut.columns, NotComputed)
    IN  /\ {listed[p].key : p \in 1..Len(listed)} =
               IF broDoc.params.present THEN FlaggedKeys(trimmed) ELSE BroKeys
        /\ ~broDoc.params.present => Len(listed) = 25
        /\ \A p \in 1..Len(listed) : listed[p].index = BroPlace(listed[p].key) - 1
        /\ \A p \in 1..Len(listed) : \A q \in 1..Len(listed) :
               p < q => listed[p].index < listed[q].index
        /\ \A p \in 1..Len(broOut.columns) :
               ~NotComputed(broOut.columns[p]) => p > Len(listed)
        /\ \A r \in 1..Len(broOut.data) : BroKeys \subseteq DOMAIN broOut.data[r]

\* C14: with a parameters block, a reference column is listed exactly when
\* its flag element is there and its text, trimmed and lower-cased, is 'ja';
\* without a parameters block all 25 columns are listed; either way every row
\* stores a value under all 25 keys and the listed columns keep the
\* reference order.
C14_ActiveColumns == BroRecord => ActiveColumnsListed(TRUE)

\* A document whose parameters block has the flag text 'Ja ' and an inactive
\* rf has been parsed into a record with a row.
C14_Witness ==
    /\ BroRecord
    /\ broDoc.params.present
    /\ "coneResistance" \in DOMAIN broDoc.params.flags
    /\ broDoc.params.flags["coneResistance"] = "Ja "
    /\ hasKey(broOut.columns, "qc")
    /\ "depth" \notin FlaggedKeys(TRUE)
    /\ Len(broOut.data) >= 1

\* C14 as stated: the flag text is lower-cased only.
C14_Original == BroRecord => ActiveColumnsListed(FALSE)

-----------------------------------------------------------------------------
(* Properties of the header metadata (scenario 7) *)

\* The header keyword, with a value, is on a line before the terminator.
GefKeywordGiven(keyword) ==
    \E j \in 1..(FirstTerminator - 1) :
        /\ gefText[j].k = "hash" /\ gefText[j].eq
        /\ toUpperCase(gefText[j].word) = keyword
        /\ JoinComma(gefText[j].val) # ""

\* The header keywords that a metadata field of a GEF record is taken from.
GefSources ==
    ("testId" :> {"TESTID"}) @@ ("projectId" :> {"PROJECTID"})
    @@ ("projectName" :> {"PROJECTNAME"}) @@ ("company" :> {"COMPANYID"})
    @@ ("date" :> {"STARTDATE"}) @@ ("surfaceLevel" :> {"ZID"})
    @@ ("x" :> {"XYID"}) @@ ("y" :> {"XYID"}) @@ ("coordSystem" :> {"XYID"})
    @@ ("measurementVar" :> {"MEASUREMENTVAR"}) @@ ("gefVersion" :> {"GEFID"})
    @@ ("fileOwner" :> {"FILEOWNER"}) @@ ("name" :> {"TESTID", "PROJECTID"})

\* The element that a metadata field of a BRO record is taken from.
BroSources ==
    ("testId" :> "broId") @@ ("name" :> "broId") @@ ("qualityRegime" :> "qualityRegime")
    @@ ("date" :> "researchReportDate/date") @@ ("cptStandard" :> "cptStandard")
    @@ ("lat" :> "standardizedLocation/pos") @@ ("lon" :> "standardizedLocation/pos")
    @@ ("x" :> "deliveredLocation/pos") @@ ("y" :> "deliveredLocation/pos")
    @@ ("surfaceLevel" :> "deliveredVerticalPosition/offset")
    @@ ("predrilledDepth" :> "trajectory/predrilledDepth")
    @@ ("finalDepth" :> "trajectory/finalDepth")
    @@ ("qualityClass" :> "conePenetrometerSurvey/qualityClass")
    @@ ("cptMethod" :> "conePenetrometerSurvey/cptMethod")
    @@ ("company" :> "deliveryAccountableParty")

\* C15: in the header of every record returned by either parser, a metadata
\* field is there only if its source is in the input: a field whose source is
\* absent is omitted, never present with a default, empty or null value.
C15_AbsentMetadataOmitted ==
    /\ GefRecord =>
           \A f \in DOMAIN gefOut.header :
               \E keyword \in GefSources[f] : GefKeywordGiven(keyword)
    /\ BroRecord =>
           \A f \in DOMAIN broOut.header : BroSources[f] \in DOMAIN broDoc.els

-----------------------------------------------------------------------------
(* Short records (scenario 7) *)

\* What the header scan of the text leaves, its column map and its separator.
GefScan ==
    scanHeader(gefText, 1, [header |-> <<>>, columns |-> <<>>, dataStartIndex |-> -1])

GefColumnMap == _buildColumnMap(GefScan.columns, GefScan.header)

\* The non-empty tokens of line i.
NonEmptyTokens(i) == splitLine(trim(gefText[i]), _detectSeparator(GefScan.header))

\* The data lines (not blank, not starting with '#' or '!') after the
\* terminator that have a token for every mapped column.
FullDataLines ==
    {i \in (FirstTerminator + 1)..Len(gefText) :
        /\ gefText[i].k = "data"
        /\ Len(NonEmptyTokens(i)) >= Len(GefColumnMap)}

\* A row, on the keys given.
OnKeys(row, keys) == [key \in keys |-> row[key]]

GefRowsAreFullLines ==
    LET keys == {GefColumnMap[p].key : p \in 1..Len(GefColumnMap)}
    IN  /\ Len(gefOut.data) = Cardinality(FullDataLines)
        /\ \A r \in 1..Len(gefOut.data) :
               OnKeys(gefOut.data[r], keys) =
                   rowOf(NonEmptyTokens(KthOf(FullDataLines, r)), GefColumnMap)

\* The blocks of the values text that are not blank, and their tokens.
BroBlocks == splitBlocks(broDoc.blocks, blockSepOf(broDoc.encoding))

BlockTokens(b) == splitBlock(BroBlocks[b], tokenSepOf(broDoc.encoding))

CompleteBlocks == {b \in 1..Len(BroBlocks) : Len(BlockTokens(b)) >= BroTokenCount}

\* (The friction ratio is left out: _computeDerived may have replaced it.)
BroRowsAreFullBlocks ==
    LET keys == {BRO_COLUMN_ORDER[i].key : i \in 1..BroTokenCount} \ {"rf"}
    IN  /\ Len(broOut.data) = Cardinality(CompleteBlocks)
        /\ \A r \in 1..Len(broOut.data) :
               OnKeys(broOut.data[r], keys) =
                   OnKeys(broRow(BlockTokens(KthOf(CompleteBlocks, r))), keys)

\* C27: short records are dropped and never fail the parse: Parser A returns
\* a record for every text with a terminator, and its rows are, in the
\* order of the text, exactly the data lines after the terminator (not blank,
\* not starting with '#' or '!') that have at least as many non-empty tokens
\* as there are mapped columns; Parser B returns a record for every document
\* with a values element, and its rows are, in order, exactly the non-blank
\* blocks that have at least 25 tokens.
C27_ShortRecordsDropped ==
    pc = "parsed" =>
        /\ (gefOut # Idle /\ HasTerminatorLine) => gefOut.k = "record" /\ GefRowsAreFullLines
        /\ (broOut # Idle /\ broDoc.wellFormed /\ broDoc.hasCpt /\ broDoc.hasValues) =>
               broOut.k = "record" /\ BroRowsAreFullBlocks

\* A document whose first block is one token short and whose second block is
\* complete has been parsed: the one row is that of the second block.
C27_Witness ==
    /\ BroRecord
    /\ Len(BroBlocks) = 2
    /\ CompleteBlocks = {2}
    /\ Len(BlockTokens(1)) = BroTokenCount - 1
    /\ Len(broOut.data) = 1

\* A text with a data line of fewer tokens than mapped columns has been
\* parsed, and the line left no row.
ShortLineDropped ==
    /\ GefRecord
    /\ Len(GefColumnMap) = 2
    /\ \E i \in (FirstTerminator + 1)..Len(gefText) :
           gefText[i].k = "data" /\ Len(NonEmptyTokens(i)) = 1
    /\ gefOut.data = <<>>

-----------------------------------------------------------------------------
(* CptChart.                                                                *)
(*                                                                         *)
(* Numbers are exact rationals or NaN: NaN spreads through arithmetic and  *)
(* every comparison with NaN is false.  draw() changes no field of the     *)
(* chart and is left out.  An array kept in a field that can be null is    *)
(* wrapped as Arr(items).                                                  *)

Arr(items) == [k |-> "array", items |-> items]

Listener == [k |-> "function"]

FAdd(a, b) ==
    IF a = NaN \/ b = NaN THEN NaN
    ELSE LET g == Gcd(a.d, b.d)
         IN  Num(a.n * (b.d \div g) + b.n * (a.d \div g), (a.d \div g) * b.d)

FSub(a, b) == IF b = NaN THEN NaN ELSE FAdd(a, Neg(b))

FMul(a, b) ==
    IF a = NaN \/ b = NaN THEN NaN
    ELSE LET g1 == Gcd(Abs(a.n), b.d)
             g2 == Gcd(Abs(b.n), a.d)
         IN  Num((a.n \div g1) * (b.n \div g2), (a.d \div g2) * (b.d \div g1))

\* a / b for b # 0
FDiv(a, b) == IF b = NaN THEN NaN ELSE FMul(a, Num(b.d, b.n))

FLt(a, b) == a # NaN /\ b # NaN /\ FSub(a, b).n < 0
FLe(a, b) == a # NaN /\ b # NaN /\ FSub(a, b).n <= 0
FGt(a, b) == FLt(b, a)
FGe(a, b) == FLe(b, a)

\* Math.ceil
MathCeil(a) == IF a = NaN THEN NaN ELSE Whole(-((-a.n) \div a.d))

\* Math.max(first, ...rest)
RECURSIVE MathMax(_, _)
MathMax(first, rest) ==
    IF Len(rest) = 0 THEN first
    ELSE MathMax(IF FGt(rest[1], first) THEN rest[1] ELSE first, Tail(rest))

\* The chart that the constructor builds.
NewChart ==
    [data |-> Null, columns |-> Null, layers |-> Null, depths |-> Null,
     depthMin |-> Whole(0), depthMax |-> Whole(30),
     depthViewMin |-> Whole(0), depthViewMax |-> Whole(30),
     qcMax |-> Whole(30), fsMax |-> Num(3, 10), rfMax |-> Whole(10),
     hoverY |-> Null, isPanning |-> FALSE, panStartY |-> Whole(0),
     panStartDepthMin |-> Whole(0), panStartDepthMax |-> Whole(0),
     onHover |-> Null, W |-> Undef, H |-> Undef]

\* resize(), for the size of the canvas's parent: Undef when there is none.
resize(c, parent) ==
    IF parent = Undef THEN c
    ELSE IF parent.w < 10 \/ parent.h < 10 THEN c
    ELSE [c EXCEPT !.W = Whole(parent.w), !.H = Whole(parent.h)]

\* 10 to the power k
Pow10(k) == IF k >= 0 THEN Whole(10 ^ k) ELSE Num(1, 10 ^ (-k))

\* Math.pow(10, Math.floor(Math.log10(v))) for 0.001 <= v < 100000
Pow10Floor(v) ==
    Pow10(CHOOSE k \in -3..4 : FLe(Pow10(k), v) /\ FLt(v, Pow10(k + 1)))

_niceMax(v) ==
    IF FLe(v, Whole(0)) THEN Whole(1)
    ELSE LET p == Pow10Floor(v)
             n == FDiv(v, p)
         IN  IF FLe(n, Whole(1)) THEN p
             ELSE IF FLe(n, Num(3, 2)) THEN FMul(Num(3, 2), p)
             ELSE IF FLe(n, Whole(2)) THEN FMul(Whole(2), p)
             ELSE IF FLe(n, Whole(3)) THEN FMul(Whole(3), p)
             ELSE IF FLe(n, Whole(5)) THEN FMul(Whole(5), p)
             ELSE FMul(Whole(10), p)

\* The depths that setData keeps: |depth|, or |length| without a depth
\* column, and null where the row has none.
chartDepths(data, columns) ==
    LET hasDepth == \E p \in 1..Len(columns) : columns[p].key = "depth"
    IN  [r \in 1..Len(data) |->
            LET v == IF hasDepth THEN Get(data[r], "depth") ELSE Get(data[r], "length")
            IN  IF ~IsMissing(v) THEN MathAbs(v) ELSE Null]

IsDepth(d) == d # Null

\* data.map(r => r[k]).filter(v => v != null && v > 0)
IsPositive(v) == ~IsMissing(v) /\ FGt(v, Whole(0))

chartVals(data, key) == SelectSeq([r \in 1..Len(data) |-> Get(data[r], key)], IsPositive)

\* setData(data, columns, layers), with the parent's size that its resize() finds.
setData(c, data, columns, soilLayers, parent) ==
    LET depths == chartDepths(data, columns)
        valid  == SelectSeq(depths, IsDepth)
        depthMax == IF Len(valid) > 0
                    THEN MathCeil(FAdd(FMul(MathMax(valid[1], Tail(valid)), Num(102, 100)),
                                       Num(1, 2)))
                    ELSE Whole(30)
    IN  resize([c EXCEPT !.data = Arr(data), !.columns = Arr(columns),
                         !.layers = Arr(soilLayers), !.depths = Arr(depths),
                         !.depthMin = Whole(0), !.depthMax = depthMax,
                         !.qcMax = _niceMax(MathMax(Num(1, 10), chartVals(data, "qc"))),
                         !.fsMax = _niceMax(MathMax(Num(1, 100), chartVals(data, "fs"))),
                         !.rfMax = _niceMax(MathMax(Whole(1), chartVals(data, "rf"))),
                         !.depthViewMin = Whole(0), !.depthViewMax = depthMax],
               parent)

HEADER == 28
BOTTOM == 4

\* The part of _layout that the handlers read; the height reads as NaN
\* while the chart has none.
_layout(c) ==
    LET h == IF c.H = Undef THEN NaN ELSE c.H
        plotB == FSub(h, Whole(BOTTOM))
    IN  [plotT |-> Whole(HEADER), plotB |-> plotB, plotH |-> FSub(plotB, Whole(HEADER))]

_d2y(c, d, L) ==
    FAdd(L.plotT,
         FMul(FDiv(FSub(d, c.depthViewMin), FSub(c.depthViewMax, c.depthViewMin)), L.plotH))

_y2d(c, y, L) ==
    FAdd(c.depthViewMin,
         FMul(FDiv(FSub(y, L.plotT), L.plotH), FSub(c.depthViewMax, c.depthViewMin)))

\* A slip in _nearest: `d <= bd`, so that of equally near depths the last wins.
_nearestLast(c, targetDepth) ==
    IF c.depths = Null THEN -1
    ELSE LET depths == c.depths.items
             Dist(i) == MathAbs(FSub(depths[i], targetDepth))
             near    == {i \in 1..Len(depths) : depths[i] # Null /\ targetDepth # NaN}
         IN  IF near = {} THEN -1
             ELSE (CHOOSE i \in near :
                      \A j \in near : FLt(Dist(i), Dist(j)) \/ (Dist(i) = Dist(j) /\ i >= j)) - 1

\* _nearest: the index, from 0, of the first depth nearest to the target; -1
\* when no depth is nearer than Infinity.
_nearest(c, targetDepth) ==
    IF c.depths = Null THEN -1
    ELSE LET depths == c.depths.items
             Dist(i) == MathAbs(FSub(depths[i], targetDepth))
             near    == {i \in 1..Len(depths) : depths[i] # Null /\ targetDepth # NaN}
         IN  IF near = {} THEN -1
             ELSE (CHOOSE i \in near :
                      \A j \in near : FLt(Dist(i), Dist(j)) \/ (Dist(i) = Dist(j) /\ i <= j)) - 1

\* What a handler leaves: the chart, and the arguments of its onHover calls.
Outcome(c, calls) == [chart |-> c, calls |-> calls]

\* The argument of the onHover call for the sample at the index idx.
hoverInfo(c, idx) ==
    LET row == c.data.items[idx + 1]
    IN  [depth |-> c.depths.items[idx + 1],
         qc |-> Get(row, "qc"), fs |-> Get(row, "fs"), rf |-> Get(row, "rf"),
         zone |-> classify(Get(row, "qc"), Get(row, "rf"))]

\* A slip in _onMouseMove: the hover call is made during a drag as well.
_onMouseMoveHoverInDrag(c, y) ==
    LET L == _layout(c)
    IN  Outcome([c EXCEPT !.hoverY = y],
                IF c.onHover # Null /\ c.data # Null
                THEN IF FGe(y, L.plotT) /\ FLe(y, L.plotB)
                     THEN IF _nearest(c, _y2d(c, y, L)) >= 0
                          THEN <<hoverInfo(c, _nearest(c, _y2d(c, y, L)))>>
                          ELSE <<>>
                     ELSE <<Null>>
                ELSE <<>>)

_onMouseMove(c, y) ==
    LET L == _layout(c)
    IN  IF c.isPanning
        THEN LET dy     == FSub(y, c.panStartY)
                 dPerPx == FDiv(FSub(c.panStartDepthMax, c.panStartDepthMin), L.plotH)
             IN  Outcome([c EXCEPT !.depthViewMin = FSub(c.panStartDepthMin, FMul(dy, dPerPx)),
                                   !.depthViewMax = FSub(c.panStartDepthMax, FMul(dy, dPerPx))],
                         <<>>)
        ELSE Outcome([c EXCEPT !.hoverY = y],
                     IF c.onHover # Null /\ c.data # Null
                     THEN IF FGe(y, L.plotT) /\ FLe(y, L.plotB)
                          THEN IF _nearest(c, _y2d(c, y, L)) >= 0
                               THEN <<hoverInfo(c, _nearest(c, _y2d(c, y, L)))>>
                               ELSE <<>>
                          ELSE <<Null>>
                     ELSE <<>>)

_onMouseLeave(c) ==
    Outcome([c EXCEPT !.hoverY = Null, !.isPanning = FALSE],
            IF c.onHover # Null THEN <<Null>> ELSE <<>>)

_onMouseDown(c, button, y) ==
    IF button = 0
    THEN [c EXCEPT !.isPanning = TRUE, !.panStartY = y,
                   !.panStartDepthMin = c.depthViewMin,
                   !.panStartDepthMax = c.depthViewMax]
    ELSE c

_onMouseUp(c) == [c EXCEPT !.isPanning = FALSE]

\* _onWheel, for the pointer's y and whether deltaY > 0.
_onWheel(c, y, down) ==
    LET L == _layout(c)
    IN  IF FLt(y, L.plotT) \/ FGt(y, L.plotB) THEN c
        ELSE LET d    == _y2d(c, y, L)
                 f    == IF down THEN Num(112, 100) ELSE FDiv(Whole(1), Num(112, 100))
                 nMin == FSub(d, FMul(FSub(d, c.depthViewMin), f))
                 nMax == FAdd(d, FMul(FSub(c.depthViewMax, d), f))
             IN  IF FLt(FSub(nMax, nMin), Num(1, 2)) THEN c
                 ELSE [c EXCEPT !.depthViewMin = nMin, !.depthViewMax = nMax]

zoomIn(c) ==
    LET mid == FDiv(FAdd(c.depthViewMin, c.depthViewMax), Whole(2))
        r   == FDiv(FSub(c.depthViewMax, c.depthViewMin), Num(13, 10))
    IN  IF FLt(r, Num(1, 2)) THEN c
        ELSE [c EXCEPT !.depthViewMin = FSub(mid, FDiv(r, Whole(2))),
                       !.depthViewMax = FAdd(mid, FDiv(r, Whole(2)))]

zoomOut(c) ==
    LET mid == FDiv(FAdd(c.depthViewMin, c.depthViewMax), Whole(2))
        r   == FMul(FSub(c.depthViewMax, c.depthViewMin), Num(13, 10))
    IN  [c EXCEPT !.depthViewMin = FSub(mid, FDiv(r, Whole(2))),
                  !.depthViewMax = FAdd(mid, FDiv(r, Whole(2)))]

\* A slip in zoomFit: the viewport before the last zoom or pan is kept.
zoomFitStale(c) == c

zoomFit(c) == [c EXCEPT !.depthViewMin = c.depthMin, !.depthViewMax = c.depthMax]

-----------------------------------------------------------------------------
(* Scenario 8: one chart, from its construction, through at most MaxEvents  *)
(* calls and events                                                         *)

MaxEvents == 3

Key(key) == [key |-> key]

\* The records that setData is given: a sounding with depths, a sounding
\* without any depth, and a GEF sounding one of whose rows has no depth.
ChartDataChoices ==
    { [data |-> << [length |-> Whole(1), depth |-> Whole(-1), qc |-> Whole(2),
                    fs |-> Num(1, 50), rf |-> Whole(1)],
                   [length |-> Whole(2), depth |-> Whole(-2), qc |-> Whole(25),
                    fs |-> Num(1, 8), rf |-> Num(1, 2)] >>,
       columns |-> <<Key("length"), Key("depth"), Key("qc"), Key("fs"), Key("rf")>>],
      [data |-> << [length |-> Null, qc |-> Null] >>,
       columns |-> <<Key("length"), Key("qc")>>],
      [data |-> << [length |-> Null], [length |-> Whole(3), depth |-> Whole(-3)] >>,
       columns |-> <<Key("length"), Key("depth")>>] }

\* The sizes of the canvas's parent: one leaves a plot 2 high, one is too small.
ParentChoices == {[w |-> 300, h |-> 34], [w |-> 300, h |-> 5]}

\* The pointer's y: in the header, on the plot's top edge, inside, on its
\* bottom edge.
PointerYs == {Whole(20), Whole(28), Whole(29), Whole(30)}

OtherThanChart == <<pc, clsVars, dsVars, layVars, gefVars, broVars, appVars, callVars>>

InitChart ==
    /\ pc = "chart"
    /\ \E onHover \in {Null, Listener} : chart = [NewChart EXCEPT !.onHover = onHover]
    /\ lastEvent = [type |-> "new"]
    /\ hoverCalls = <<>>
    /\ nEvents = 0
    /\ gefText = Idle /\ gefOut = Idle /\ broDoc = Idle /\ broOut = Idle
    /\ points = Idle /\ minThickness = Idle /\ provisional = Idle
    /\ layers = Idle /\ distribution = Idle
    /\ qc = Idle /\ rf = Idle /\ zoneOut = Idle
    /\ rows = Idle /\ classifications = Idle
    /\ NoApp /\ NoCall

\* What every call and event leaves besides the chart: the event, and the
\* arguments of the onHover calls its handler made.
Handled(event, calls) ==
    /\ lastEvent' = event
    /\ hoverCalls' = calls
    /\ nEvents' = nEvents + 1
    /\ UNCHANGED OtherThanChart

SetData ==
    /\ nEvents < MaxEvents
    /\ \E ds \in ChartDataChoices : \E parent \in ParentChoices :
           chart' = setData(chart, ds.data, ds.columns, <<>>, parent)
    /\ Handled([type |-> "setData"], <<>>)

Resize ==
    /\ nEvents < MaxEvents
    /\ \E parent \in ParentChoices : chart' = resize(chart, parent)
    /\ Handled([type |-> "resize"], <<>>)

MouseMove ==
    /\ nEvents < MaxEvents
    /\ \E y \in PointerYs :
           /\ chart' = _onMouseMove(chart, y).chart
           /\ Handled([type |-> "mousemove", y |-> y], _onMouseMove(chart, y).calls)

MouseLeave ==
    /\ nEvents < MaxEvents
    /\ chart' = _onMouseLeave(chart).chart
    /\ Handled([type |-> "mouseleave"], _onMouseLeave(chart).calls)

MouseDown ==
    /\ nEvents < MaxEvents
    /\ \E y \in PointerYs : \E button \in {0, 2} :
           /\ chart' = _onMouseDown(chart, button, y)
           /\ Handled([type |-> "mousedown", y |-> y, button |-> button], <<>>)

MouseUp ==
    /\ nEvents < MaxEvents
    /\ chart' = _onMouseUp(chart)
    /\ Handled([type |-> "mouseup"], <<>>)

Wheel ==
    /\ nEvents < MaxEvents
    /\ \E y \in PointerYs : \E down \in BOOLEAN :
           /\ chart' = _onWheel(chart, y, down)
           /\ Handled([type |-> "wheel", y |-> y, down |-> down], <<>>)

ZoomIn ==
    /\ nEvents < MaxEvents
    /\ chart' = zoomIn(chart)
    /\ Handled([type |-> "zoomIn"], <<>>)

ZoomOut ==
    /\ nEvents < MaxEvents
    /\ chart' = zoomOut(chart)
    /\ Handled([type |-> "zoomOut"], <<>>)

\* The event keeps the viewport that zoomFit found.
ZoomFit ==
    /\ nEvents < MaxEvents
    /\ chart' = zoomFit(chart)
    /\ Handled([type |-> "zoomFit", viewMin |-> chart.depthViewMin,
                viewMax |-> chart.depthViewMax], <<>>)

NextChart ==
    \/ SetData \/ Resize \/ MouseMove \/ MouseLeave \/ MouseDown \/ MouseUp
    \/ Wheel \/ ZoomIn \/ ZoomOut \/ ZoomFit

SpecChart == InitChart /\ [][NextChart]_vars

-----------------------------------------------------------------------------
(* Claims about the chart's viewport                                        *)

DataIsSet == chart.data # Null

\* The valid depths of the data the chart shows: the absolute values of the
\* depth column, or of the length column when there is no depth column.
ValidDepths ==
    LET data == chart.data.items
        depthKey == IF \E p \in 1..Len(chart.columns.items) :
                           chart.columns.items[p].key = "depth"
                    THEN "depth" ELSE "length"
    IN  {MathAbs(Get(data[r], depthKey)) :
            r \in {q \in 1..Len(data) : ~IsMissing(Get(data[q], depthKey))}}

\* The least whole number that is not below x, for 0 <= x <= 100.
CeilingOf(x) ==
    CHOOSE n \in 0..100 : FLe(x, Whole(n)) /\ (n = 0 \/ FLt(Whole(n - 1), x))

\* The full extent's far end: ceil(max valid |depth| * 1.02 + 0.5), or 30.
FullExtentMax ==
    IF ValidDepths = {} THEN Whole(30)
    ELSE LET deepest == CHOOSE d \in ValidDepths : \A e \in ValidDepths : FLe(e, d)
         IN  Whole(CeilingOf(FAdd(FMul(deepest, Num(102, 100)), Num(1, 2))))

ViewIsFullExtent ==
    /\ chart.depthMin = Whole(0)
    /\ chart.depthMax = FullExtentMax
    /\ chart.depthViewMin = chart.depthMin
    /\ chart.depthViewMax = chart.depthMax

C17_ViewWithinFullExtent ==
    (chart # Idle /\ DataIsSet)
        => /\ FLe(chart.depthMin, chart.depthViewMin)
           /\ FLe(chart.depthViewMax, chart.depthMax)

\* C18: in every state reached from the chart's construction by setData,
\* resize, mousedown, mousemove, mouseup, mouseleave, wheel, zoomIn, zoomOut
\* and zoomFit in any order, depthViewMax - depthViewMin >= 0.5.
C18_ViewSpanAtLeastHalf ==
    chart # Idle => FGe(FSub(chart.depthViewMax, chart.depthViewMin), Num(1, 2))

-----------------------------------------------------------------------------
(* Claims about the hover callback                                          *)

ListenerIsSet == chart.onHover # Null

Moved == lastEvent.type = "mousemove"

\* The pointer's y lies within the plot area, its edges included.
InPlot ==
    /\ FGe(lastEvent.y, _layout(chart).plotT)
    /\ FLe(lastEvent.y, _layout(chart).plotB)

\* The depth under the pointer.
PointerDepth == _y2d(chart, lastEvent.y, _layout(chart))

\* The samples that have a depth.
Sampled == {i \in 1..Len(chart.depths.items) : chart.depths.items[i] # Null}

Away(i) == MathAbs(FSub(chart.depths.items[i], PointerDepth))

\* The sample nearest to the pointer's depth, the first of them on a tie.
IsNearest(i) ==
    /\ i \in Sampled
    /\ \A j \in Sampled : FLe(Away(i), Away(j))
    /\ \A j \in Sampled : j < i => FLt(Away(i), Away(j))

\* What the hover callback carries for the sample i.
Carried(i) ==
    LET row == chart.data.items[i]
    IN  [depth |-> chart.depths.items[i],
         qc |-> Get(row, "qc"), fs |-> Get(row, "fs"), rf |-> Get(row, "rf"),
         zone |-> classify(Get(row, "qc"), Get(row, "rf"))]

\* C19, as stated: with data set, a pointer motion whose y lies within the
\* plot area emits exactly one hover callback, carrying depth, qc, fs, rf
\* and zone of the sample nearest to the pointer's depth; a pointer motion
\* outside the plot area and a mouseleave emit one null hover callback.
C19_Original ==
    (chart # Idle /\ DataIsSet /\ ListenerIsSet)
        => /\ (Moved /\ InPlot) =>
                  \E i \in Sampled : IsNearest(i) /\ hoverCalls = <<Carried(i)>>
           /\ (Moved /\ ~InPlot) => hoverCalls = <<Null>>
           /\ lastEvent.type = "mouseleave" => hoverCalls = <<Null>>

\* C19, amended: with a listener registered, a mouseleave emits one null
\* hover callback; with data set as well, a pointer motion during a drag
\* emits none, and outside a drag a motion outside the plot area emits one
\* null callback and a motion within the plot area emits exactly one callback
\* for the nearest sample when a sample has a depth and the pointer's depth
\* is a number, and none otherwise.
C19_HoverCallbacks ==
    (chart # Idle /\ ListenerIsSet)
        => /\ lastEvent.type = "mouseleave" => hoverCalls = <<Null>>
           /\ (Moved /\ ~DataIsSet) => hoverCalls = <<>>
           /\ (Moved /\ DataIsSet /\ chart.isPanning) => hoverCalls = <<>>
           /\ (Moved /\ DataIsSet /\ ~chart.isPanning /\ ~InPlot) => hoverCalls = <<Null>>
           /\ (Moved /\ DataIsSet /\ ~chart.isPanning /\ InPlot) =>
                  IF Sampled # {} /\ PointerDepth # NaN
                  THEN \E i \in Sampled : IsNearest(i) /\ hoverCalls = <<Carried(i)>>
                  ELSE hoverCalls = <<>>

\* The pointer moved within the plot to a depth midway between two samples,
\* and the callback carried the first of them with its zone.
C19_Witness ==
    /\ chart # Idle /\ DataIsSet /\ ListenerIsSet
    /\ Moved /\ InPlot /\ ~chart.isPanning
    /\ Len(hoverCalls) = 1
    /\ hoverCalls[1] # Null
    /\ hoverCalls[1].depth = Whole(1)
    /\ hoverCalls[1].zone # Null
    /\ \E j \in Sampled : chart.depths.items[j] # Whole(1) /\ Away(j) = FSub(PointerDepth, Whole(1))

-----------------------------------------------------------------------------
(* Claims about panning                                                     *)

ViewOf(c) == <<c.depthViewMin, c.depthViewMax>>
SpanOf(c) == FSub(c.depthViewMax, c.depthViewMin)

PanStartSpan == FSub(chart.panStartDepthMax, chart.panStartDepthMin)

\* The shift of a drag to the pointer's y.
PanShift(y) ==
    FMul(FSub(y, chart.panStartY), FDiv(PanStartSpan, _layout(chart).plotH))

\* The pointer has just moved during a drag.
Dragged == chart # Idle /\ Moved /\ chart.isPanning

\* C24, the moves of a drag: the viewport is the one captured at mousedown
\* shifted by -(y - yAtMouseDown) * (span at mousedown) / plotH, its span is
\* the span captured at mousedown, and with the pointer back at the
\* mousedown y it is the mousedown viewport.
PanFollowsPointer ==
    Dragged =>
        /\ chart.depthViewMin = FSub(chart.panStartDepthMin, PanShift(lastEvent.y))
        /\ chart.depthViewMax = FSub(chart.panStartDepthMax, PanShift(lastEvent.y))
        /\ SpanOf(chart) = PanStartSpan
        /\ lastEvent.y = chart.panStartY =>
               ViewOf(chart) = <<chart.panStartDepthMin, chart.panStartDepthMax>>

\* C24, the other buttons: a mousedown of a non-primary button changes
\* nothing of the chart, so it starts no pan.
OtherButtonStartsNoPan ==
    (chart # Idle /\ lastEvent'.type = "mousedown" /\ lastEvent'.button # 0) =>
        chart' = chart

\* C24, outside a drag: a pointer move leaves the viewport as it was.
MoveOutsideDragKeepsView ==
    (chart # Idle /\ ~chart.isPanning /\ lastEvent'.type = "mousemove") =>
        ViewOf(chart') = ViewOf(chart)

\* C24: while a primary-button drag is in progress every pointer move sets the
\* viewport to the bounds captured at mousedown shifted by
\* -(y - yAtMouseDown) * (span at mousedown) / plotH, so the span stays the
\* span captured at mousedown and moving the pointer back to the mousedown y
\* restores the mousedown viewport; a non-primary button starts no pan; after
\* mouseup or mouseleave pointer moves leave the viewport unchanged.
C24_PanShiftsCapturedView ==
    /\ []PanFollowsPointer
    /\ [][OtherButtonStartsNoPan /\ MoveOutsideDragKeepsView]_vars

\* The chart has a size that leaves a plot of positive height.
HasPlot == chart # Idle /\ FGt(_layout(chart).plotH, Whole(0))

\* C24 for the charts that have a plot of positive height.
PanFollowsPointerOnPlot == HasPlot => PanFollowsPointer

PanOutsideDrag == [][OtherButtonStartsNoPan /\ MoveOutsideDragKeepsView]_vars

-----------------------------------------------------------------------------
(* Claims about the wheel                                                   *)

WheelFactor(down) == IF down THEN Num(112, 100) ELSE Num(100, 112)

\* The pointer's y lies within the plot area of the chart c.
WithinPlot(c, y) == FGe(y, _layout(c).plotT) /\ FLe(y, _layout(c).plotB)

\* What the claim says of the wheel step that takes the chart from c to
\* next, with the pointer at y.
WheelStepAsStated(c, next, y, down) ==
    LET newSpan == FMul(SpanOf(c), WheelFactor(down))
    IN  IF WithinPlot(c, y) /\ ~FLt(newSpan, Num(1, 2))
        THEN /\ SpanOf(next) = newSpan
             /\ _d2y(next, _y2d(c, y, _layout(c)), _layout(next)) = y
        ELSE ViewOf(next) = ViewOf(c)

IsWheelStep == chart # Idle /\ lastEvent'.type = "wheel"

WheelKeepsPointerDepth ==
    IsWheelStep => WheelStepAsStated(chart, chart', lastEvent'.y, lastEvent'.down)

\* C25: a wheel step with the pointer inside the plot area multiplies the
\* viewport's span by exactly 1.12 (deltaY > 0) or 1/1.12 and leaves the depth
\* under the pointer at the same pixel y; a wheel step with the pointer
\* outside the plot area, or one whose span would come out below 0.5, leaves
\* the viewport unchanged.
C25_WheelZoomsAroundPointer == [][WheelKeepsPointerDepth]_vars

ViewIsNumber == chart.depthViewMin # NaN /\ chart.depthViewMax # NaN

\* C25 for the charts that have a plot of positive height and a viewport
\* whose ends are numbers.
WheelOnPlot == [][(HasPlot /\ ViewIsNumber) => WheelKeepsPointerDepth]_vars

-----------------------------------------------------------------------------
(* The application: files handed to handleFiles, their reads, addDataSet.   *)
(*                                                                         *)
(* A text shown to the user is the sequence of the parts its template      *)
(* joins.                                                                  *)

Str(str) == [k |-> "str", s |-> str]

Text(parts) == [k |-> "text", parts |-> parts]

\* file.name.toLowerCase() on the names of the model.
toLowerCase(name) == IF name = "B.GEF" THEN "b.gef" ELSE name

\* name.endsWith(suffix) on the lower-cased names of the model.
endsWith(name, suffix) ==
    \/ suffix = ".gef" /\ name \in {"a.gef", "b.gef"}
    \/ suffix = ".xml" /\ name \in {"c.xml", "d.xml"}

\* v is truthy, for a number, null or undefined
Truthy(v) == ~IsMissing(v) /\ v # NaN /\ v.n # 0

\* x.toFixed(1) for x >= 0: x rounded to tenths.
toFixed1(x) == [k |-> "fixed1", tenths |-> (20 * x.n + x.d) \div (2 * x.d)]

\* array[index] = val, with index counted from 0
SetAt(arr, index, val) ==
    [p \in 1..(IF index + 1 > Len(arr) THEN index + 1 ELSE Len(arr)) |->
        IF p = index + 1 THEN val ELSE IF p <= Len(arr) THEN arr[p] ELSE Undef]

\* array[index], with index counted from 0
At(arr, index) == IF index + 1 \in 1..Len(arr) THEN arr[index + 1] ELSE Undef

IsLive(x) == x # Null

\* r.length || r.depth || 0
statusDepthOf(r) ==
    IF Truthy(Get(r, "length")) THEN Get(r, "length")
    ELSE IF Truthy(Get(r, "depth")) THEN Get(r, "depth")
    ELSE Whole(0)

IsNonZero(v) == v # Null /\ v # Whole(0)

\* updateStatusInfo(): the text of #status-info that it leaves.
updateStatusInfo(dataSets, instances, active, status) ==
    LET count == Len(SelectSeq(instances, IsLive))
        ds    == At(dataSets, active)
    IN  IF count = 0 THEN Text(<<Str("Geen data geladen")>>)
        ELSE IF IsMissing(ds) THEN status
        ELSE LET depths   == SelectSeq([r \in 1..Len(ds.data) |-> statusDepthOf(ds.data[r])],
                                       IsNonZero)
                 maxDepth == IF Len(depths) > 0
                             THEN MathMax(MathAbs(depths[1]),
                                          [q \in 1..(Len(depths) - 1) |-> MathAbs(depths[q + 1])])
                             ELSE Whole(0)
                 label    == IF "name" \in DOMAIN ds.header /\ ds.header.name # ""
                             THEN ds.header.name ELSE ds.fileName
             IN  Text(<<Str(label), Str(" | "), Whole(count),
                        Str(IF count > 1 THEN " sonderingen" ELSE " sondering"),
                        Str(" | "), toFixed1(maxDepth), Str(" m")>>)

\* The application's state as one record, for the functions that change it.
AppState(dataSets, instances, active, status) ==
    [cptDataSets |-> dataSets, chartInstances |-> instances,
     activeIndex |-> active, statusInfo |-> status]

\* selectCpt(index)
selectCpt(app, index) ==
    LET to == [app EXCEPT !.activeIndex = index]
    IN  IF IsMissing(At(app.cptDataSets, index)) THEN to
        ELSE [to EXCEPT !.statusInfo =
                 updateStatusInfo(to.cptDataSets, to.chartInstances, to.activeIndex,
                                  to.statusInfo)]

\* createChartPanel(ds, index): the instance kept for the panel; its chart
\* waits for the animation frame in which it is given the data.
createChartPanel(app, index) ==
    [app EXCEPT !.chartInstances =
        SetAt(@, index, [chart |-> [NewChart EXCEPT !.onHover = Listener],
                         awaitsFrame |-> TRUE])]

\* addDataSet(ds).  Each step's value is drawn from the set that holds it
\* alone, so that it is computed once.
addDataSet(app, ds) ==
    CHOOSE out \in
        { [chosen EXCEPT !.statusInfo =
              updateStatusInfo(chosen.cptDataSets, chosen.chartInstances,
                               chosen.activeIndex, chosen.statusInfo)] :
          chosen \in
            { selectCpt(createChartPanel(pushed, Len(pushed.cptDataSets) - 1),
                        Len(pushed.cptDataSets) - 1) :
              pushed \in
                { [app EXCEPT !.cptDataSets = Append(@, full)] :
                  full \in
                    { Put(Put(ds, "layers", soilLayers),
                          "distribution", computeDistribution(soilLayers)) :
                      soilLayers \in
                        {mergeLayers(classifyDataset(ds.data), DefaultMinThickness)} } } } } :
        TRUE

\* The parse that reader.onload makes of the file's text.
parseFile(file) ==
    IF endsWith(toLowerCase(file.name), ".xml")
    THEN broParse(file.content) ELSE gefParse(file.content)

\* A slip in reader.onload: a file whose parse fails leaves a record too.
onFileLoadKeepsFailed(app, file) ==
    CHOOSE out \in
        { IF result.k = "threw"
          THEN [app EXCEPT !.cptDataSets = Append(@, [fileName |-> file.name]),
                           !.statusInfo = Text(<<Str("Fout: "), Str(result.message)>>)]
          ELSE addDataSet(app, Put(Put(result, "fileName", file.name), "format",
                                   IF endsWith(toLowerCase(file.name), ".xml")
                                   THEN "BRO-XML" ELSE "GEF")) :
          result \in {parseFile(file)} } :
        TRUE

\* reader.onload of handleFiles for a file: the parse, and addDataSet or the
\* message of the catch block.
onFileLoad(app, file) ==
    CHOOSE out \in
        { IF result.k = "threw"
          THEN [app EXCEPT !.statusInfo = Text(<<Str("Fout: "), Str(result.message)>>)]
          ELSE addDataSet(app, Put(Put(result, "fileName", file.name), "format",
                                   IF endsWith(toLowerCase(file.name), ".xml")
                                   THEN "BRO-XML" ELSE "GEF")) :
          result \in {parseFile(file)} } :
        TRUE

\* What the parse of a file throws, or Null.
thrownBy(file) ==
    IF parseFile(file).k = "threw" THEN Str(parseFile(file).message) ELSE Null

-----------------------------------------------------------------------------
(* Scenario 9: the application, from its start, is handed at most MaxFiles  *)
(* files, whose reads complete in any order                                 *)

MaxFiles == 2

GefWithTerminator ==
    << HashLine(FALSE, "COLUMNINFO", FALSE, TRUE, <<"1", "m", "Sondeerlengte", "1">>),
       HashLine(FALSE, "COLUMNINFO", FALSE, TRUE, <<"2", "MPa", "Conus", "2">>),
       HashLine(FALSE, "COLUMNINFO", FALSE, TRUE, <<"3", "MPa", "Wrijving", "3">>),
       HashLine(FALSE, "EOH", FALSE, TRUE, <<"">>),
       DataLine(<<"1", "2", "0.5">>),
       DataLine(<<"2", "2", "0.5">>) >>

GefWithoutTerminator ==
    << HashLine(FALSE, "COLUMNINFO", FALSE, TRUE, <<"1", "m", "Sondeerlengte", "1">>),
       DataLine(<<"1", "2">>) >>

BroWithValues ==
    [wellFormed |-> TRUE, hasCpt |-> TRUE, hasValues |-> TRUE, els |-> <<>>,
     params |-> [present |-> FALSE], encoding |-> [present |-> FALSE],
     blocks |-> <<MakeBlock(BroTokenCount, "1", "2"), MakeBlock(BroTokenCount, "2", "2")>>]

BroWithoutCpt == [BroWithValues EXCEPT !.hasCpt = FALSE]

FileChoices ==
    { [name |-> "a.gef", content |-> GefWithTerminator],
      [name |-> "B.GEF", content |-> GefWithoutTerminator],
      [name |-> "c.xml", content |-> BroWithValues],
      [name |-> "d.xml", content |-> BroWithoutCpt],
      [name |-> "e.txt", content |-> GefWithTerminator] }

InitApp ==
    /\ pc = "app"
    /\ fileList = <<>>
    /\ unread = {}
    /\ cptDataSets = <<>>
    /\ chartInstances = <<>>
    /\ activeIndex = -1
    /\ statusInfo = Text(<<Str("Geen data geladen")>>)
    /\ lastEvent = [type |-> "start"]
    /\ chart = Idle /\ hoverCalls = Idle /\ nEvents = Idle
    /\ NoCall
    /\ gefText = Idle /\ gefOut = Idle /\ broDoc = Idle /\ broOut = Idle
    /\ points = Idle /\ minThickness = Idle /\ provisional = Idle
    /\ layers = Idle /\ distribution = Idle
    /\ qc = Idle /\ rf = Idle /\ zoneOut = Idle
    /\ rows = Idle /\ classifications = Idle

OtherThanApp ==
    <<pc, clsVars, dsVars, layVars, gefVars, broVars, chart, hoverCalls, nEvents, callVars>>

\* handleFiles(batch): a reader is started for each file named .gef or .xml.
HandleFiles ==
    /\ pc = "app"
    /\ \E batch \in SeqsUpTo(FileChoices, MaxFiles) :
           /\ Len(batch) >= 1
           /\ Len(fileList) + Len(batch) <= MaxFiles
           /\ fileList' = fileList \o batch
           /\ unread' = unread \cup
                  {Len(fileList) + b : b \in
                      {q \in 1..Len(batch) :
                          \/ endsWith(toLowerCase(batch[q].name), ".gef")
                          \/ endsWith(toLowerCase(batch[q].name), ".xml")}}
    /\ lastEvent' = [type |-> "handleFiles"]
    /\ UNCHANGED <<cptDataSets, chartInstances, activeIndex, statusInfo, OtherThanApp>>

\* reader.onload for one of the files being read.
FileLoaded ==
    /\ pc = "app"
    /\ \E i \in unread :
           \E app \in {onFileLoad(AppState(cptDataSets, chartInstances, activeIndex,
                                           statusInfo), fileList[i])} :
               /\ unread' = unread \ {i}
               /\ cptDataSets' = app.cptDataSets
               /\ chartInstances' = app.chartInstances
               /\ activeIndex' = app.activeIndex
               /\ statusInfo' = app.statusInfo
               /\ lastEvent' = [type |-> "onload", file |-> i,
                                thrown |-> thrownBy(fileList[i])]
    /\ UNCHANGED <<fileList, OtherThanApp>>

\* The animation frame that createChartPanel asked for: the chart of a panel
\* is given its data.
AnimationFrame ==
    /\ pc = "app"
    /\ \E i \in 1..Len(chartInstances) : \E parent \in ParentChoices :
           /\ IsLive(chartInstances[i])
           /\ chartInstances[i].awaitsFrame
           /\ chartInstances' =
                  [chartInstances EXCEPT ![i] =
                      [chart |-> setData(@.chart, cptDataSets[i].data, cptDataSets[i].columns,
                                         cptDataSets[i].layers, parent),
                       awaitsFrame |-> FALSE]]
    /\ lastEvent' = [type |-> "frame"]
    /\ UNCHANGED <<fileList, unread, cptDataSets, activeIndex, statusInfo, OtherThanApp>>

NextApp == HandleFiles \/ FileLoaded \/ AnimationFrame

SpecApp == InitApp /\ [][NextApp]_vars

-----------------------------------------------------------------------------
(* Claims about the messages shown to the user                              *)

\* The text shown has the part among those it joins.
Mentions(text, part) ==
    /\ text.k = "text"
    /\ \E p \in 1..Len(text.parts) : text.parts[p] = part

\* C20: when the parse of a loaded file fails, the message shown to the user
\* holds both the name of that file and the description of the error.
C20_ErrorMessageNamesFile ==
    (pc = "app" /\ lastEvent.type = "onload" /\ lastEvent.thrown # Null)
        => /\ Mentions(statusInfo, Str(fileList[lastEvent.file].name))
           /\ Mentions(statusInfo, lastEvent.thrown)

-----------------------------------------------------------------------------
(* Claims about a batch of files                                            *)

\* handleFiles starts a reader for the file.
Accepted(i) ==
    \/ endsWith(toLowerCase(fileList[i].name), ".gef")
    \/ endsWith(toLowerCase(fileList[i].name), ".xml")

\* The files whose read is complete.
Loaded == {i \in 1..Len(fileList) : Accepted(i) /\ i \notin unread}

Parses(i) == parseFile(fileList[i]).k # "threw"

DataSetsOf(name) == {d \in 1..Len(cptDataSets) : cptDataSets[d].fileName = name}

\* The dataset is the parse of a file of its name, with layers and
\* distribution attached.
WholeDataSet(ds) ==
    /\ {"header", "columns", "data", "layers", "distribution"} \subseteq DOMAIN ds
    /\ \E i \in Loaded :
           /\ Parses(i)
           /\ fileList[i].name = ds.fileName
           /\ ds.data = parseFile(fileList[i]).data
           /\ ds.columns = parseFile(fileList[i]).columns
    /\ ds.layers = mergeLayers(classifyDataset(ds.data), DefaultMinThickness)
    /\ ds.distribution = computeDistribution(ds.layers)

\* C21: whatever the order in which the reads of a batch complete, each file
\* whose parse succeeds has added exactly one dataset, with layers and
\* distribution attached, and each file whose parse fails has added none and
\* has left no partial record; the files read after a failure are added all
\* the same.
C21_OneDataSetPerParsedFile ==
    pc = "app" =>
        /\ Len(cptDataSets) = Cardinality({i \in Loaded : Parses(i)})
        /\ \A i \in Loaded :
               Cardinality(DataSetsOf(fileList[i].name)) =
                   IF Parses(i)
                   THEN Cardinality({j \in Loaded : fileList[j].name = fileList[i].name})
                   ELSE 0
        /\ \A d \in 1..Len(cptDataSets) : WholeDataSet(cptDataSets[d])
        /\ Len(chartInstances) = Len(cptDataSets)

\* Of a batch of two, the file read first failed and the file read after it
\* was added.
C21_Witness ==
    /\ pc = "app"
    /\ Len(fileList) = 2 /\ unread = {}
    /\ lastEvent.type = "onload" /\ lastEvent.thrown = Null
    /\ \E i \in Loaded : ~Parses(i)
    /\ Len(cptDataSets) = 1
    /\ cptDataSets[1].layers # <<>>
    /\ cptDataSets[1].distribution # <<>>

-----------------------------------------------------------------------------
(* Numbers as the engine holds them: IEEE-754 doubles (binary64) *)

\* A natural number as its digits in base 2^14, the lowest digit first.
LimbBits == 7 + 7
LimbBase == 2 ^ LimbBits

Limb(a, i) == IF i <= Len(a) THEN a[i] ELSE 0

Longer(a, b) == IF Len(a) > Len(b) THEN Len(a) ELSE Len(b)

RECURSIVE BigAddFrom(_, _, _, _)
BigAddFrom(a, b, i, carry) ==
    IF i > Longer(a, b)
    THEN IF carry = 0 THEN <<>> ELSE <<carry>>
    ELSE <<(Limb(a, i) + Limb(b, i) + carry) % LimbBase>>
         \o BigAddFrom(a, b, i + 1, (Limb(a, i) + Limb(b, i) + carry) \div LimbBase)

BigAdd(a, b) == BigAddFrom(a, b, 1, 0)

\* a * s for a number s below the base
RECURSIVE BigTimesFrom(_, _, _, _)
BigTimesFrom(a, s, i, carry) ==
    IF i > Len(a)
    THEN IF carry = 0 THEN <<>> ELSE <<carry % LimbBase>> \o
                                     (IF carry < LimbBase THEN <<>> ELSE <<carry \div LimbBase>>)
    ELSE <<(a[i] * s + carry) % LimbBase>>
         \o BigTimesFrom(a, s, i + 1, (a[i] * s + carry) \div LimbBase)

BigTimes(a, s) == BigTimesFrom(a, s, 1, 0)

RECURSIVE ShiftLimbs(_, _)
ShiftLimbs(a, t) == IF t = 0 THEN a ELSE <<0>> \o ShiftLimbs(a, t - 1)

RECURSIVE BigMulFrom(_, _, _)
BigMulFrom(a, b, j) ==
    IF j > Len(b) THEN <<>>
    ELSE BigAdd(ShiftLimbs(BigTimes(a, b[j]), j - 1), BigMulFrom(a, b, j + 1))

BigMul(a, b) == BigMulFrom(a, b, 1)

\* a * 2^bits
BigShl(a, bits) == ShiftLimbs(BigTimes(a, 2 ^ (bits % LimbBits)), bits \div LimbBits)

\* -1, 0 or 1 as a is below, equal to or above b
RECURSIVE BigCmpFrom(_, _, _)
BigCmpFrom(a, b, i) ==
    IF i = 0 THEN 0
    ELSE IF Limb(a, i) < Limb(b, i) THEN -1
    ELSE IF Limb(a, i) > Limb(b, i) THEN 1
    ELSE BigCmpFrom(a, b, i - 1)

BigCmp(a, b) == BigCmpFrom(a, b, Longer(a, b))

\* floor(a / s) for a number s below the base
RECURSIVE BigDivFrom(_, _, _, _)
BigDivFrom(a, s, i, rem) ==
    IF i = 0 THEN <<>>
    ELSE BigDivFrom(a, s, i - 1, (rem * LimbBase + a[i]) % s)
         \o <<(rem * LimbBase + a[i]) \div s>>

BigDiv(a, s) == BigDivFrom(a, s, Len(a), 0)

RECURSIVE BigDec(_)
BigDec(a) ==
    IF a[1] > 0 THEN [a EXCEPT ![1] = @ - 1]
    ELSE <<LimbBase - 1>> \o BigDec(Tail(a))

TopLimb(a) ==
    CHOOSE i \in 0..Len(a) :
        (i = 0 \/ a[i] # 0) /\ \A j \in (i + 1)..Len(a) : a[j] = 0

BitsOf(x) == CHOOSE n \in 0..LimbBits : x < 2 ^ n /\ (n = 0 \/ x >= 2 ^ (n - 1))

BigBits(a) ==
    IF TopLimb(a) = 0 THEN 0
    ELSE (TopLimb(a) - 1) * LimbBits + BitsOf(a[TopLimb(a)])

\* A positive double is m * 2^e with 2^52 <= m < 2^53; m is held in four
\* digits. (Exponents stay far from the ends of the double's range here.)
Precision == 52 + 1

FourLimbs(a) == <<Limb(a, 1), Limb(a, 2), Limb(a, 3), Limb(a, 4)>>

\* The double nearest to X * 2^E, ties to the even one, for X of 53 bits
\* or more.
Double(X, E) ==
    LET t  == BigBits(X) - Precision
        q  == BigDiv(X, 2 ^ t)
        r  == X[1] % (2 ^ t)
        up == t > 0 /\ (2 * r > 2 ^ t \/ (2 * r = 2 ^ t /\ q[1] % 2 = 1))
        m  == IF up THEN BigAdd(q, <<1>>) ELSE q
    IN  IF BigBits(m) > Precision
        THEN [m |-> FourLimbs(BigDiv(m, 2)), e |-> E + t + 1]
        ELSE [m |-> FourLimbs(m), e |-> E + t]

\* The double of a number of halves: Halves(3) is 1.5.
Halves(C) == Double(BigShl(<<C>>, Precision + 2), -(Precision + 3))

DLe(x, y) == x.e < y.e \/ (x.e = y.e /\ BigCmp(x.m, y.m) <= 0)
DLt(x, y) == x.e < y.e \/ (x.e = y.e /\ BigCmp(x.m, y.m) < 0)

\* x * y, rounded, for y a number of halves
DTimesHalves(C, x) == Double(BigTimes(x.m, C), x.e - 1)

\* (v / p) <= c, where the quotient is rounded to a double before it is
\* compared: it is at most c exactly when v/p is no more than the midpoint of
\* c and the next double above it (when c's last bit is 0, a quotient on
\* the midpoint itself rounds to c).
QuotientAtMost(v, p, c) ==
    LET mid   == BigMul(p.m, BigAdd(BigTimes(c.m, 2), <<1>>))
        shift == v.e - (p.e + c.e - 1)
        cmp   == IF shift >= 0
                 THEN BigCmp(BigShl(v.m, shift), mid)
                 ELSE BigCmp(v.m, BigShl(mid, -shift))
    IN  IF c.m[1] % 2 = 0 THEN cmp <= 0 ELSE cmp < 0

\* Math.pow(10, k) for the decades used here: the doubles nearest to 10^k.
MinDecade == 3     \* the lowest decade is 10^(-MinDecade)
MaxDecade == 3
KMin == -MinDecade
KMax == MaxDecade

MathPow10(k) ==
    CASE k = -4 -> [m |-> <<813, 11377, 11822, 1677>>, e |-> -66]
      [] k = -3 -> [m |-> <<10748, 3014, 9437, 1048>>, e |-> -62]
      [] k = -2 -> [m |-> <<5243, 7864, 11796, 1310>>, e |-> -59]
      [] k = -1 -> [m |-> <<6554, 9830, 6553, 1638>>, e |-> -56]
      [] k = 0  -> [m |-> <<0, 0, 0, 1024>>, e |-> -52]
      [] k = 1  -> [m |-> <<0, 0, 0, 1280>>, e |-> -49]
      [] k = 2  -> [m |-> <<0, 0, 0, 1600>>, e |-> -46]
      [] k = 3  -> [m |-> <<0, 0, 0, 2000>>, e |-> -43]
      [] k = 4  -> [m |-> <<0, 0, 0, 1250>>, e |-> -39]

\* Math.floor(Math.log10(v)), for v in [10^KMin, 10^KMax) that is not just
\* below a power of ten (where the logarithm may round up to an integer).
FloorLog10(v) ==
    CHOOSE k \in KMin..(KMax - 1) : DLe(MathPow10(k), v) /\ DLt(v, MathPow10(k + 1))

\* _niceMax in the arithmetic it runs in; v is a positive double.
niceMaxInDoubles(v) ==
    LET p == MathPow10(FloorLog10(v))
    IN  IF QuotientAtMost(v, p, Halves(2)) THEN p
        ELSE IF QuotientAtMost(v, p, Halves(3)) THEN DTimesHalves(3, p)
        ELSE IF QuotientAtMost(v, p, Halves(4)) THEN DTimesHalves(4, p)
        ELSE IF QuotientAtMost(v, p, Halves(6)) THEN DTimesHalves(6, p)
        ELSE IF QuotientAtMost(v, p, Halves(10)) THEN DTimesHalves(10, p)
        ELSE DTimesHalves(20, p)

-----------------------------------------------------------------------------
(* Scenario 10: one call of _niceMax on a double *)

MaxUlps == 2

NextUp(x) ==
    IF BigBits(BigAdd(x.m, <<1>>)) > Precision
    THEN [m |-> FourLimbs(BigShl(<<1>>, Precision - 1)), e |-> x.e + 1]
    ELSE [m |-> FourLimbs(BigAdd(x.m, <<1>>)), e |-> x.e]

NextDown(x) ==
    IF BigBits(BigDec(x.m)) < Precision
    THEN [m |-> FourLimbs(BigDec(BigShl(<<1>>, Precision))), e |-> x.e - 1]
    ELSE [m |-> FourLimbs(BigDec(x.m)), e |-> x.e]

\* The double d places above (below, for a negative d) the double x.
RECURSIVE Step(_, _)
Step(x, d) ==
    IF d = 0 THEN x
    ELSE IF d > 0 THEN Step(NextUp(x), d - 1)
    ELSE Step(NextDown(x), d + 1)

\* The values given to _niceMax: the doubles around the steps 1.5, 2, 3 and 5
\* of every decade, those just above a power of ten, and 1, 10 and 100.
NiceMaxChoices ==
    {Step(DTimesHalves(C, MathPow10(k)), d) :
         C \in {3, 4, 6, 10}, k \in KMin..(KMax - 1), d \in (-MaxUlps)..MaxUlps}
    \cup {Step(MathPow10(k), d) : k \in KMin..(KMax - 1), d \in 1..MaxUlps}
    \cup {MathPow10(k) : k \in 0..(KMax - 1)}

InitNiceMax ==
    /\ pc = "niceMax"
    /\ callArgs \in NiceMaxChoices
    /\ callResult = Pending
    /\ NoChart /\ NoApp
    /\ gefText = Idle /\ gefOut = Idle /\ broDoc = Idle /\ broOut = Idle
    /\ points = Idle /\ minThickness = Idle /\ provisional = Idle
    /\ layers = Idle /\ distribution = Idle
    /\ qc = Idle /\ rf = Idle /\ zoneOut = Idle
    /\ rows = Idle /\ classifications = Idle

NiceMax ==
    /\ pc = "niceMax"
    /\ callResult = Pending
    /\ callResult' = niceMaxInDoubles(callArgs)
    /\ UNCHANGED <<pc, callArgs, clsVars, dsVars, layVars, gefVars, broVars, chartVars, appVars>>

NextNiceMax == NiceMax

SpecNiceMax == InitNiceMax /\ [][NextNiceMax]_vars

\* C22: for every positive value v, _niceMax returns a value that is at least
\* v and that is m * 10^k for an integer k and an m among 1, 1.5, 2, 3, 5, 10.
C22_NiceMaxCoversValue ==
    (pc = "niceMax" /\ callResult # Pending) =>
        /\ DLe(callArgs, callResult)
        /\ \E C \in {2, 3, 4, 6, 10, 20}, k \in KMin..(KMax - 1) :
               callResult = DTimesHalves(C, MathPow10(k))

-----------------------------------------------------------------------------
(* Scenario 11: one call of _nearest on a chart's depths *)

MaxSamples == 3

\* The depths that setData leaves: none before setData, and after it a list
\* of absolute values and nulls.
DepthsChoices ==
    {Null} \cup {Arr(s) : s \in SeqsUpTo({Null, Whole(0), Whole(1), Whole(2)}, MaxSamples)}

\* The targets: _y2d of a pointer's y, NaN when the viewport's ends are NaN.
TargetChoices ==
    {Whole(-1), Whole(0), Num(1, 2), Whole(1), Num(3, 2), Whole(3), NaN}

InitNearest ==
    /\ pc = "nearest"
    /\ callArgs \in [depths : DepthsChoices, target : TargetChoices]
    /\ callResult = Pending
    /\ NoChart /\ NoApp
    /\ gefText = Idle /\ gefOut = Idle /\ broDoc = Idle /\ broOut = Idle
    /\ points = Idle /\ minThickness = Idle /\ provisional = Idle
    /\ layers = Idle /\ distribution = Idle
    /\ qc = Idle /\ rf = Idle /\ zoneOut = Idle
    /\ rows = Idle /\ classifications = Idle

Nearest ==
    /\ pc = "nearest"
    /\ callResult = Pending
    /\ callResult' = Whole(_nearest([depths |-> callArgs.depths], callArgs.target))
    /\ UNCHANGED <<pc, callArgs, clsVars, dsVars, layVars, gefVars, broVars, chartVars, appVars>>

NextNearest == Nearest

SpecNearest == InitNearest /\ [][NextNearest]_vars

NearestDone == pc = "nearest" /\ callResult # Pending

\* The samples, numbered from 0, that have a depth.
WithDepth ==
    IF callArgs.depths = Null THEN {}
    ELSE {i \in 0..(Len(callArgs.depths.items) - 1) : callArgs.depths.items[i + 1] # Null}

\* |depth - target| of the sample i
Off(i) == MathAbs(FSub(callArgs.depths.items[i + 1], callArgs.target))

\* The index i is the lowest among the samples with a depth that are nearest
\* to the target.
LowestNearest(i) ==
    /\ i \in WithDepth
    /\ \A j \in WithDepth : FLe(Off(i), Off(j))
    /\ \A j \in WithDepth : Off(j) = Off(i) => i <= j

-----------------------------------------------------------------------------
(* Scenario 12: the header scan of GefParser.parse on at most             *)
(* MaxHeaderLines lines                                                     *)

MaxHeaderLines == 3

HeaderLineChoices ==
    { HashLine(FALSE, "TESTID", FALSE, TRUE, <<"x">>),
      HashLine(FALSE, "testid", FALSE, TRUE, <<"y">>),
      HashLine(TRUE, "PROJECTID", TRUE, TRUE, <<"p", "q">>),
      HashLine(FALSE, "TESTID", FALSE, FALSE, <<>>),
      HashLine(FALSE, "COLUMNTEXT", FALSE, TRUE, <<"1", "aan">>),
      HashLine(FALSE, "COLUMNINFO", FALSE, TRUE, <<"1", "m", "Sondeerlengte", "1">>),
      HashLine(FALSE, "COLUMNSEPARATOR", FALSE, TRUE, <<";">>),
      HashLine(FALSE, "EOH", FALSE, TRUE, <<"">>),
      BlankLine }

InitHeader ==
    /\ pc = "header"
    /\ callArgs \in [lines : SeqsUpTo(HeaderLineChoices, MaxHeaderLines)]
    /\ callResult = Pending
    /\ NoChart /\ NoApp
    /\ gefText = Idle /\ gefOut = Idle /\ broDoc = Idle /\ broOut = Idle
    /\ points = Idle /\ minThickness = Idle /\ provisional = Idle
    /\ layers = Idle /\ distribution = Idle
    /\ qc = Idle /\ rf = Idle /\ zoneOut = Idle
    /\ rows = Idle /\ classifications = Idle

\* The header loop of parse: what it leaves in header and columns.
ScanHeader ==
    /\ pc = "header"
    /\ callResult = Pending
    /\ callResult' = scanHeader(callArgs.lines, 1,
                                [header |-> <<>>, columns |-> <<>>, dataStartIndex |-> -1])
    /\ UNCHANGED <<pc, callArgs, clsVars, dsVars, layVars, gefVars, broVars, chartVars, appVars>>

NextHeader == ScanHeader

SpecHeader == InitHeader /\ [][NextHeader]_vars

HeaderScanned == pc = "header" /\ callResult # Pending

\* The lines the scan has read as '#KEYWORD=value': those before the first
\* terminator.
KeywordLines ==
    {i \in 1..Len(callArgs.lines) :
        /\ matchesKeyword(trim(callArgs.lines[i]))
        /\ \A j \in 1..i : ~isEOH(trim(callArgs.lines[j]))}

UpperKeyword(i) ==
    IF callArgs.lines[i].word = "testid" THEN "TESTID" ELSE callArgs.lines[i].word

HandledKeywords == {"COLUMNINFO", "COLUMNSEPARATOR", "RECORDSEPARATOR", "COLUMNVOID"}

OtherKeywordLines == {i \in KeywordLines : UpperKeyword(i) \notin HandledKeywords}

HasColumnPrefix(i) == SubSeq(UpperKeyword(i), 1, 6) = "COLUMN"

\* The last line with the keyword of line i.
LastOf(i) ==
    CHOOSE j \in OtherKeywordLines :
        /\ UpperKeyword(j) = UpperKeyword(i)
        /\ \A l \in OtherKeywordLines : UpperKeyword(l) = UpperKeyword(i) => l <= j

\* The header has the keyword of line i as a field, with the value of the
\* last line of that keyword.
StoredAsField(i) ==
    /\ UpperKeyword(i) \in DOMAIN callResult.header
    /\ callResult.header[UpperKeyword(i)] = callArgs.lines[LastOf(i)].val

\* The lines whose keyword starts with COLUMN, in the order of the text.
PrefixedLines == Ascending({i \in OtherKeywordLines : HasColumnPrefix(i)})

\* C28 (as amended): of the lines '#KEYWORD=value' that the header scan
\* reads, every one whose upper-cased keyword does not start with COLUMN is
\* stored as a header field: the header maps the upper-cased keyword to the
\* line's value, the last line winning; a line whose upper-cased keyword
\* starts with COLUMN and is not COLUMNINFO, COLUMNSEPARATOR,
\* RECORDSEPARATOR or COLUMNVOID is not stored under its keyword but added,
\* in order, to the list header._columns as a keyword and value pair.
C28_OtherKeywordsStored ==
    HeaderScanned =>
        /\ \A i \in OtherKeywordLines :
               IF HasColumnPrefix(i)
               THEN UpperKeyword(i) \notin DOMAIN callResult.header
               ELSE StoredAsField(i)
        /\ IF Len(PrefixedLines) = 0
           THEN "_columns" \notin DOMAIN callResult.header
           ELSE /\ "_columns" \in DOMAIN callResult.header
                /\ callResult.header["_columns"] =
                       [p \in 1..Len(PrefixedLines) |->
                           [keyword |-> UpperKeyword(PrefixedLines[p]),
                            value   |-> callArgs.lines[PrefixedLines[p]].val]]

\* The keyword was written in lower case and again in upper case: the header
\* has it once, in upper case, with the value of the later line.
C28_Witness ==
    /\ HeaderScanned
    /\ \E i, j \in OtherKeywordLines :
           /\ i < j
           /\ callArgs.lines[i].word = "testid"
           /\ callArgs.lines[j].word = "TESTID"
           /\ callResult.header["TESTID"] = callArgs.lines[j].val
           /\ callArgs.lines[i].val # callArgs.lines[j].val

\* C28 as stated: every line '#KEYWORD=value' whose upper-cased keyword is not
\* COLUMNINFO, COLUMNSEPARATOR, RECORDSEPARATOR or COLUMNVOID is stored as a
\* header field under the upper-cased keyword, the last line winning.
C28_Original ==
    HeaderScanned => \A i \in OtherKeywordLines : StoredAsField(i)

-----------------------------------------------------------------------------
(* CptChart._drawLine: the path it builds.                                  *)
(*                                                                         *)
(* The path is the sequence of its moveTo and lineTo calls, each with the   *)
(* row (from 0) of the sample and the sample's depth and value, from which  *)
(* the call's x and y are computed.                                         *)

PathPoint(op, row, d, v) == [op |-> op, row |-> row, depth |-> d, value |-> v]

\* A slip in _drawLine: a skipped sample does not end the segment.
RECURSIVE pathAcrossGaps(_, _, _, _)
pathAcrossGaps(c, key, i, on) ==
    IF i > Len(c.data.items) THEN <<>>
    ELSE LET d == c.depths.items[i]
             v == Get(c.data.items[i], key)
         IN  IF d = Null \/ IsMissing(v) THEN pathAcrossGaps(c, key, i + 1, on)
             ELSE <<PathPoint(IF on THEN "lineTo" ELSE "moveTo", i - 1, d, v)>>
                  \o pathAcrossGaps(c, key, i + 1, TRUE)

_drawLineAcrossGaps(c, key) ==
    IF c.data = Null THEN <<>> ELSE pathAcrossGaps(c, key, 1, FALSE)

\* The loop of _drawLine from the sample i on (samples count from 1 here).
RECURSIVE pathFrom(_, _, _, _)
pathFrom(c, key, i, on) ==
    IF i > Len(c.data.items) THEN <<>>
    ELSE LET d == c.depths.items[i]
             v == Get(c.data.items[i], key)
         IN  IF d = Null \/ IsMissing(v) THEN pathFrom(c, key, i + 1, FALSE)
             ELSE <<PathPoint(IF on THEN "lineTo" ELSE "moveTo", i - 1, d, v)>>
                  \o pathFrom(c, key, i + 1, TRUE)

_drawLine(c, key) ==
    IF c.data = Null THEN <<>> ELSE pathFrom(c, key, 1, FALSE)

-----------------------------------------------------------------------------
(* Scenario 13: one call of _drawLine for the qc line of a chart *)

\* The rows of the chart: with or without a depth, and with a value, a null
\* or no value under the key.
SampleChoices ==
    {[depth |-> d, qc |-> v] : d \in {Null, Whole(-1)}, v \in {Null, Whole(2)}}
    \cup {[depth |-> d] : d \in {Null, Whole(-1)}}

\* The charts: one without data, and those that setData has given rows.
DrawnCharts ==
    {NewChart} \cup
    {setData(NewChart, s, <<Key("depth"), Key("qc")>>, <<>>, [w |-> 300, h |-> 34]) :
        s \in SeqsUpTo(SampleChoices, MaxSamples)}

InitDrawLine ==
    /\ pc = "drawLine"
    /\ callArgs \in [chart : DrawnCharts, key : {"qc"}]
    /\ callResult = Pending
    /\ NoChart /\ NoApp
    /\ gefText = Idle /\ gefOut = Idle /\ broDoc = Idle /\ broOut = Idle
    /\ points = Idle /\ minThickness = Idle /\ provisional = Idle
    /\ layers = Idle /\ distribution = Idle
    /\ qc = Idle /\ rf = Idle /\ zoneOut = Idle
    /\ rows = Idle /\ classifications = Idle

DrawLine ==
    /\ pc = "drawLine"
    /\ callResult = Pending
    /\ callResult' = [path |-> _drawLine(callArgs.chart, callArgs.key)]
    /\ UNCHANGED <<pc, callArgs, clsVars, dsVars, layVars, gefVars, broVars, chartVars, appVars>>

NextDrawLine == DrawLine

SpecDrawLine == InitDrawLine /\ [][NextDrawLine]_vars

LineDrawn == pc = "drawLine" /\ callResult # Pending

\* The rows (from 0) of the chart that have a depth and a value.
Drawable ==
    IF callArgs.chart.data = Null THEN {}
    ELSE {i \in 0..(Len(callArgs.chart.data.items) - 1) :
            /\ callArgs.chart.depths.items[i + 1] # Null
            /\ callArgs.key \in DOMAIN callArgs.chart.data.items[i + 1]
            /\ callArgs.chart.data.items[i + 1][callArgs.key] # Null}

\* C29: drawing a parameter line never interpolates across a gap: the path
\* has one point for every sample with a non-null depth and a non-null
\* value, in row order, and no other; a point is joined to the point before
\* it by a segment (lineTo) only if the two samples are consecutive rows, and
\* after any sample with a null depth or value the next point starts a new
\* segment (moveTo); a path is built whatever is null.
C29_NoSegmentAcrossGap ==
    LineDrawn =>
        LET path == callResult.path
        IN  /\ Len(path) = Cardinality(Drawable)
            /\ \A p \in 1..Len(path) :
                   /\ path[p].row = KthOf(Drawable, p)
                   /\ path[p].op = "lineTo" <=> (path[p].row - 1) \in Drawable
                   /\ path[p].op = "lineTo" => (p > 1 /\ path[p - 1].row = path[p].row - 1)
                   /\ path[p].op \in {"lineTo", "moveTo"}

\* Three samples, the middle one without a value: the path is two points,
\* each the start of a segment.
C29_Witness ==
    /\ LineDrawn
    /\ Drawable = {0, 2}
    /\ Len(callResult.path) = 2
    /\ callResult.path[2].op = "moveTo"

-----------------------------------------------------------------------------
(* The panels of the application: removal, selection and zoom               *)

\* chartInstances.findIndex(c => c !== null), counted from 0; -1 for none
findIndexNotNull(arr) ==
    IF \E p \in 1..Len(arr) : arr[p] # Null
    THEN (CHOOSE p \in 1..Len(arr) :
              /\ arr[p] # Null
              /\ \A q \in 1..(p - 1) : arr[q] = Null) - 1
    ELSE -1

\* A slip in removeCpt: the selection stays where it was.
removeCptKeepsActive(app, index) ==
    IF IsMissing(At(app.chartInstances, index)) THEN app
    ELSE LET cleared == [app EXCEPT !.chartInstances = SetAt(@, index, Null),
                                    !.cptDataSets = SetAt(@, index, Null)]
         IN  [cleared EXCEPT !.statusInfo =
                 updateStatusInfo(cleared.cptDataSets, cleared.chartInstances,
                                  cleared.activeIndex, cleared.statusInfo)]

\* removeCpt(index)
removeCpt(app, index) ==
    IF IsMissing(At(app.chartInstances, index)) THEN app
    ELSE LET cleared   == [app EXCEPT !.chartInstances = SetAt(@, index, Null),
                                      !.cptDataSets = SetAt(@, index, Null)]
             remaining == findIndexNotNull(cleared.chartInstances)
             after     == IF app.activeIndex # index THEN cleared
                          ELSE IF remaining >= 0 THEN selectCpt(cleared, remaining)
                          ELSE [cleared EXCEPT !.activeIndex = -1]
         IN  [after EXCEPT !.statusInfo =
                 updateStatusInfo(after.cptDataSets, after.chartInstances,
                                  after.activeIndex, after.statusInfo)]

\* The click handler of #btn-close-all.
closeAll(app) ==
    [app EXCEPT !.chartInstances = <<>>, !.cptDataSets = <<>>, !.activeIndex = -1,
                !.statusInfo = Text(<<Str("Geen data geladen")>>)]

\* onChartHover(info, index)
onChartHover(app, index) ==
    IF index # app.activeIndex /\ ~IsMissing(At(app.chartInstances, index))
    THEN selectCpt(app, index) ELSE app

\* The click handlers of #btn-zoom-in, #btn-zoom-out and #btn-zoom-fit.
zoomButton(app, button) ==
    LET inst == At(app.chartInstances, app.activeIndex)
    IN  IF IsMissing(inst) THEN app
        ELSE [app EXCEPT !.chartInstances =
                 SetAt(@, app.activeIndex,
                       [inst EXCEPT !.chart = IF button = "in" THEN zoomIn(@)
                                              ELSE IF button = "out" THEN zoomOut(@)
                                              ELSE zoomFit(@)])]

-----------------------------------------------------------------------------
(* Scenario 14: the application is handed at most MaxFiles files, and the   *)
(* user makes at most MaxPanelEvents clicks and pointer moves on the panels *)
(* and the toolbar                                                          *)

MaxPanelEvents == 3

\* The files handed over: one that parses and one that does not.
PanelFileChoices ==
    { [name |-> "a.gef", content |-> GefWithTerminator],
      [name |-> "d.xml", content |-> BroWithoutCpt] }

InitPanels ==
    /\ pc = "panels"
    /\ fileList = <<>>
    /\ unread = {}
    /\ cptDataSets = <<>>
    /\ chartInstances = <<>>
    /\ activeIndex = -1
    /\ statusInfo = Text(<<Str("Geen data geladen")>>)
    /\ lastEvent = [type |-> "start"]
    /\ nEvents = 0
    /\ chart = Idle /\ hoverCalls = Idle
    /\ NoCall
    /\ gefText = Idle /\ gefOut = Idle /\ broDoc = Idle /\ broOut = Idle
    /\ points = Idle /\ minThickness = Idle /\ provisional = Idle
    /\ layers = Idle /\ distribution = Idle
    /\ qc = Idle /\ rf = Idle /\ zoneOut = Idle
    /\ rows = Idle /\ classifications = Idle

OtherThanPanels ==
    <<pc, clsVars, dsVars, layVars, gefVars, broVars, chart, hoverCalls, callVars>>

\* The state that a handler of the application leaves.
Becomes(app) ==
    /\ cptDataSets' = app.cptDataSets
    /\ chartInstances' = app.chartInstances
    /\ activeIndex' = app.activeIndex
    /\ statusInfo' = app.statusInfo

\* The panels in the document: those of the instances kept.
PanelsShown == {i \in 0..(Len(chartInstances) - 1) : ~IsMissing(At(chartInstances, i))}

\* handleFiles(batch)
PanelsHandleFiles ==
    /\ pc = "panels"
    /\ \E batch \in SeqsUpTo(PanelFileChoices, MaxFiles) :
           /\ Len(batch) >= 1
           /\ Len(fileList) + Len(batch) <= MaxFiles
           /\ fileList' = fileList \o batch
           /\ unread' = unread \cup
                  {Len(fileList) + b : b \in
                      {q \in 1..Len(batch) :
                          \/ endsWith(toLowerCase(batch[q].name), ".gef")
                          \/ endsWith(toLowerCase(batch[q].name), ".xml")}}
    /\ lastEvent' = [type |-> "handleFiles"]
    /\ UNCHANGED <<cptDataSets, chartInstances, activeIndex, statusInfo, nEvents,
                   OtherThanPanels>>

\* reader.onload for one of the files being read.
PanelsFileLoaded ==
    /\ pc = "panels"
    /\ \E i \in unread :
           /\ unread' = unread \ {i}
           /\ \E app \in {onFileLoad(AppState(cptDataSets, chartInstances, activeIndex,
                                              statusInfo), fileList[i])} : Becomes(app)
           /\ lastEvent' = [type |-> "onload", file |-> i]
    /\ UNCHANGED <<fileList, nEvents, OtherThanPanels>>

\* The animation frame that createChartPanel asked for: the chart of a panel
\* is given its data.  The frame of a panel closed before it changes no
\* state of the application.
PanelsAnimationFrame ==
    /\ pc = "panels"
    /\ \E i \in 1..Len(chartInstances) : \E parent \in ParentChoices :
           /\ IsLive(chartInstances[i])
           /\ chartInstances[i].awaitsFrame
           /\ chartInstances' =
                  [chartInstances EXCEPT ![i] =
                      [chart |-> setData(@.chart, cptDataSets[i].data, cptDataSets[i].columns,
                                         cptDataSets[i].layers, parent),
                       awaitsFrame |-> FALSE]]
    /\ lastEvent' = [type |-> "frame"]
    /\ UNCHANGED <<fileList, unread, cptDataSets, activeIndex, statusInfo, nEvents,
                   OtherThanPanels>>

\* A click on the close button of a panel in the document.
CloseButton ==
    /\ pc = "panels"
    /\ nEvents < MaxPanelEvents
    /\ \E index \in PanelsShown :
           /\ Becomes(removeCpt(AppState(cptDataSets, chartInstances, activeIndex,
                                         statusInfo), index))
           /\ lastEvent' = [type |-> "remove", index |-> index]
    /\ nEvents' = nEvents + 1
    /\ UNCHANGED <<fileList, unread, OtherThanPanels>>

\* A click on #btn-close-all.
CloseAllButton ==
    /\ pc = "panels"
    /\ nEvents < MaxPanelEvents
    /\ Becomes(closeAll(AppState(cptDataSets, chartInstances, activeIndex, statusInfo)))
    /\ lastEvent' = [type |-> "closeAll"]
    /\ nEvents' = nEvents + 1
    /\ UNCHANGED <<fileList, unread, OtherThanPanels>>

\* A click on the header of a panel in the document.
HeaderClick ==
    /\ pc = "panels"
    /\ nEvents < MaxPanelEvents
    /\ \E index \in PanelsShown :
           /\ Becomes(selectCpt(AppState(cptDataSets, chartInstances, activeIndex,
                                         statusInfo), index))
           /\ lastEvent' = [type |-> "select", index |-> index]
    /\ nEvents' = nEvents + 1
    /\ UNCHANGED <<fileList, unread, OtherThanPanels>>

\* chart.onHover of a chart made by createChartPanel, whose panel may have
\* left the document since.
ChartHover ==
    /\ pc = "panels"
    /\ nEvents < MaxPanelEvents
    /\ \E index \in 0..(MaxFiles - 1) :
           /\ Becomes(onChartHover(AppState(cptDataSets, chartInstances, activeIndex,
                                            statusInfo), index))
           /\ lastEvent' = [type |-> "hover", index |-> index]
    /\ nEvents' = nEvents + 1
    /\ UNCHANGED <<fileList, unread, OtherThanPanels>>

\* A click on one of the zoom buttons.
ZoomButton ==
    /\ pc = "panels"
    /\ nEvents < MaxPanelEvents
    /\ \E button \in {"in", "out", "fit"} :
           /\ Becomes(zoomButton(AppState(cptDataSets, chartInstances, activeIndex,
                                          statusInfo), button))
           /\ lastEvent' = [type |-> "zoom", button |-> button,
                            inst |-> At(chartInstances, activeIndex)]
    /\ nEvents' = nEvents + 1
    /\ UNCHANGED <<fileList, unread, OtherThanPanels>>

NextPanels ==
    \/ PanelsHandleFiles
    \/ PanelsFileLoaded
    \/ PanelsAnimationFrame
    \/ CloseButton
    \/ CloseAllButton
    \/ HeaderClick
    \/ ChartHover
    \/ ZoomButton

SpecPanels == InitPanels /\ [][NextPanels]_vars

-----------------------------------------------------------------------------
(* Claims about the panels                                                  *)

Slots == 0..((IF Len(cptDataSets) > Len(chartInstances)
              THEN Len(cptDataSets) ELSE Len(chartInstances)) - 1)

LiveDataSets == {i \in Slots : ~IsMissing(At(cptDataSets, i))}

LiveCharts == {i \in Slots : ~IsMissing(At(chartInstances, i))}

\* C30: after any sequence of additions, removals of one panel, close-all,
\* selections of a panel and selections made by hovering, chartInstances[i] is
\* live exactly when cptDataSets[i] is, activeIndex is -1 exactly when no
\* dataset is live and is otherwise the index of a live dataset, and the chart
\* that a zoom button acted on is a live one or none.
C30_PanelsStayAligned ==
    pc = "panels" =>
        /\ LiveCharts = LiveDataSets
        /\ (activeIndex = -1) <=> (LiveDataSets = {})
        /\ activeIndex # -1 => activeIndex \in LiveDataSets
        /\ lastEvent.type = "zoom" =>
               /\ lastEvent.inst # Null
               /\ (lastEvent.inst = Undef) <=> (LiveCharts = {})

\* The active panel was closed while another was shown, which is selected
\* in its place.
C30_Witness ==
    /\ pc = "panels"
    /\ lastEvent.type = "remove"
    /\ lastEvent.index = 1
    /\ Len(cptDataSets) = 2
    /\ cptDataSets[2] = Null
    /\ activeIndex = 0

\* A zoom button acted on the chart of the panel that hovering had selected.
ZoomedAfterHover ==
    /\ pc = "panels"
    /\ lastEvent.type = "zoom"
    /\ lastEvent.inst \notin {Null, Undef}
    /\ activeIndex = 0
    /\ Len(chartInstances) = 2

====
